---- MODULE Spec2Model ----
(***************************************************************************)
(* collectd_exporter: the metric store of main.go, its push handler, the   *)
(* binary protocol server and the naming of the exported metrics.          *)
(*                                                                         *)
(* Goroutines: the producers that call collectdCollector.Write (the HTTP   *)
(* push handler collectdPost and the dispatch goroutines of the binary     *)
(* protocol server), the single processSamples goroutine, and the scrapes  *)
(* that call collectdCollector.Collect.  Time is counted in whole units;   *)
(* strings are sequences of one-character strings.                         *)
(***************************************************************************)
EXTENDS Integers, Sequences, FiniteSets, TLC

\* ------------------------------------------------------------------ bounds
MaxTime == 3        \* the clock runs from 0 to MaxTime
MaxInterval == 1    \* a sample's Interval lies in 0..MaxInterval
MaxSkew == 1        \* a sample's Time lies at most MaxSkew before its arrival
MaxCalls == 3       \* Write calls, Collect calls, rejected pushes and counted
                    \* ticker events in one behaviour
MaxBatch == 2       \* value lists in one decoded push

\* --------------------------------------------------------------- constants
\* const timeout = 2
timeout == 2

\* The goroutines that may be inside Write at once (the HTTP push handler, the
\* dispatch goroutines of the binary protocol server) and the scrapes that
\* may be inside Collect at once.  The goroutines of one kind run the same
\* code, so a call takes the lowest slot that is free.
WriterSlots == <<"writer1", "writer2">>
CollectorSlots == <<"scrape1", "scrape2">>
Writers == { WriterSlots[i] : i \in DOMAIN WriterSlots }
Collectors == { CollectorSlots[i] : i \in DOMAIN CollectorSlots }
LowestFree(slots, pcs, p) ==
  \A i, j \in DOMAIN slots : (i < j /\ slots[j] = p) => pcs[slots[i]] # "idle"
NoOne == "unlocked"
ProcessSamplesId == "processSamples"

\* ------------------------------------------------------------------- data
\* api.Identifier values the producers send.
Identifiers ==
  { [Host |-> <<"h">>, Plugin |-> <<"c","p","u">>, PluginInstance |-> <<"0">>,
     Type |-> <<"c","p","u">>, TypeInstance |-> <<>>],
    [Host |-> <<"h">>, Plugin |-> <<"d","f">>, PluginInstance |-> <<>>,
     Type |-> <<"d","f">>, TypeInstance |-> <<"r">>] }

\* The data sources of a collectd type: api.Value is an interface, and the
\* values the api package defines are Gauge, Derive and Counter; "Other" is
\* any value the type switch of newMetric has no case for (a nil Value, a
\* Value of another package).  Type cpu has a derive and a counter, type df
\* two gauges around a value of unknown kind.
ValuesOf(type) ==
  IF type = <<"c","p","u">>
    THEN << [kind |-> "Derive", v |-> 1], [kind |-> "Counter", v |-> 2] >>
    ELSE << [kind |-> "Gauge", v |-> 0], [kind |-> "Other", v |-> 0],
            [kind |-> "Gauge", v |-> 1] >>

\* api.ValueList as received at time t: the sender's timestamp is t or up to
\* MaxSkew earlier.
ValueListsAt(t) ==
  { [Identifier |-> id, Time |-> tm, Interval |-> iv, Values |-> ValuesOf(id.Type)] :
      id \in Identifiers,
      tm \in { x \in 0..t : t - x <= MaxSkew },
      iv \in 0..MaxInterval }

NoValueList == [Identifier |-> <<>>, Time |-> 0, Interval |-> 0, Values |-> <<>>]

\* var valueLists []*api.ValueList: an element points to a value list or is
\* nil (a null in the JSON array).  The value lists of a push received at
\* time t are stamped t.
Ptr(vl) == [isNil |-> FALSE, vl |-> vl]
NilPtr == [isNil |-> TRUE, vl |-> NoValueList]
Pointers(t) == { Ptr(vl) : vl \in { x \in ValueListsAt(t) : x.Time = t } } \cup {NilPtr}

\* The slices a push received at time t decodes to.
Batches(t) == UNION { [1..n -> Pointers(t)] : n \in 0..MaxBatch }

\* The request bodies of a push: one that cannot be read, one json.Unmarshal
\* rejects (elems is what it had decoded when it met the error: nothing, or
\* the elements before the bad one), and one that decodes to elems.
Bodies(t) ==
  { [readable |-> FALSE, valid |-> FALSE, elems |-> <<>>] }
    \cup { [readable |-> TRUE, valid |-> FALSE, elems |-> e] :
             e \in { b \in Batches(t) : Len(b) < MaxBatch } }
    \cup { [readable |-> TRUE, valid |-> TRUE, elems |-> e] : e \in Batches(t) }

\* A UDP datagram of the binary protocol received at time t: the value lists
\* of its parts, and whether a part is malformed; network.Parse returns the
\* value lists of the parts, or an error.
Datagrams(t) ==
  LET vls == { x \in ValueListsAt(t) : x.Time = t /\ x.Interval = MaxInterval } IN
  { [malformed |-> m, parts |-> e] :
      m \in BOOLEAN, e \in UNION { [1..n -> vls] : n \in 0..MaxBatch } }
NoDatagram == [malformed |-> FALSE, parts |-> <<>>]

\* What one push counts for among the calls of a behaviour: its Write calls,
\* and one when it makes none.
Cost(elems) == IF elems = <<>> THEN 1 ELSE Len(elems)

\* vl.Identifier.String(): host "/" plugin ["-" plugin instance] "/" type
\* ["-" type instance]
IdentifierString(id) ==
  id.Host \o <<"/">> \o id.Plugin
    \o (IF id.PluginInstance # <<>> THEN <<"-">> \o id.PluginInstance ELSE <<>>)
    \o <<"/">> \o id.Type
    \o (IF id.TypeInstance # <<>> THEN <<"-">> \o id.TypeInstance ELSE <<>>)

\* Variant: the deadline one interval after the timestamp.
validUntilOneInterval(vl) == vl.Time + vl.Interval

\* validUntil := vl.Time.Add(timeout * vl.Interval)
validUntil(vl) == vl.Time + timeout * vl.Interval

\* Variant: an entry counts as expired at its deadline already.
ExpiredAtDeadline(vl, t) == validUntil(vl) <= t

\* validUntil.Before(now)
Expired(vl, t) == validUntil(vl) < t

\* Variant: a derive is exported as a gauge.
newMetricDeriveAsGauge(vl, index) ==
  LET v == vl.Values[index] IN
  IF v.kind \in {"Gauge", "Derive"}
    THEN [ok |-> TRUE, vl |-> vl, index |-> index, valueType |-> "GaugeValue", value |-> v.v]
  ELSE IF v.kind = "Counter"
    THEN [ok |-> TRUE, vl |-> vl, index |-> index, valueType |-> "CounterValue", value |-> v.v]
  ELSE [ok |-> FALSE, vl |-> vl, index |-> index, valueType |-> "none", value |-> 0]

\* newMetric: the value type and value of one data source; ok is FALSE for
\* the default branch of the type switch.
newMetric(vl, index) ==
  LET v == vl.Values[index] IN
  IF v.kind = "Gauge"
    THEN [ok |-> TRUE, vl |-> vl, index |-> index, valueType |-> "GaugeValue", value |-> v.v]
  ELSE IF v.kind \in {"Derive", "Counter"}
    THEN [ok |-> TRUE, vl |-> vl, index |-> index, valueType |-> "CounterValue", value |-> v.v]
  ELSE [ok |-> FALSE, vl |-> vl, index |-> index, valueType |-> "none", value |-> 0]

\* The emission of the lastPush gauge.
LastPushMetric(v) ==
  [ok |-> TRUE, vl |-> NoValueList, index |-> 0, valueType |-> "GaugeValue", value |-> v]

\* Variant: a key that is present keeps its entry.
MapPutIfAbsent(m, id, vl) ==
  [k \in DOMAIN m \cup {id} |-> IF k \in DOMAIN m THEN m[k] ELSE vl]

\* Variant: a stored entry with a later timestamp is kept.
MapPutIfNewer(m, id, vl) ==
  [k \in DOMAIN m \cup {id} |->
     IF k = id /\ ~ (k \in DOMAIN m /\ vl.Time < m[k].Time) THEN vl ELSE m[k]]

\* c.valueLists[id] = vl
MapPut(m, id, vl) == [k \in DOMAIN m \cup {id} |-> IF k = id THEN vl ELSE m[k]]

\* Variant: the sweep deletes nothing.
MapSweepKeepsAll(m, t) == m

\* Variant: the sweep deletes an entry one interval after its timestamp.
MapSweepOneInterval(m, t) ==
  LET keep == { k \in DOMAIN m : ~ (m[k].Time + m[k].Interval < t) } IN
  [k \in keep |-> m[k]]

\* Variant: the sweep also deletes the entries whose deadline is its now.
MapSweepAtDeadline(m, t) ==
  LET keep == { k \in DOMAIN m : validUntil(m[k]) > t } IN [k \in keep |-> m[k]]

\* delete(c.valueLists, id) for every id the sweep finds expired
MapSweep(m, t) ==
  LET keep == { k \in DOMAIN m : ~ Expired(m[k], t) } IN [k \in keep |-> m[k]]

\* ----------------------------------------------------------------- naming
\* The plugin, type and data source names of the value lists newDesc is
\* called with, with the names of the tests of main_test.go among them.
PluginNames ==
  { <<"c","p","u">>, <<"d","f">>, <<"d","n","s">>,
    <<"i","n","t","e","r","f","a","c","e">>,
    <<"a","-","b">>, <<"t","y","p","e">>, <<"i","n","s","t","a","n","c","e">> }
TypeNames ==
  { <<"c","p","u">>, <<"d","f">>, <<"d","n","s","_","q","t","y","p","e">>,
    <<"p","e","r","c","e","n","t">>, <<"i","f","_","o","c","t","e","t","s">>, <<"x",".","y">> }
DSNameLists ==
  { <<>>, <<<<"v","a","l","u","e">>>>, <<<<"u","s","e","d">>, <<"f","r","e","e">>>>, <<<<"r","x">>, <<"t","x">>>>,
    <<<<"t","o","t","a","l">>>>, <<<<"r"," ","x">>>> }
ValueKinds == {"Gauge", "Derive", "Counter"}

\* The value lists: every combination of the names, with values of one kind,
\* as many as data source names (one or two when there are no names), and
\* with or without a plugin instance and a type instance.
Samples ==
  { [Identifier |-> [Host |-> <<"h">>, Plugin |-> p, PluginInstance |-> pi,
                     Type |-> t, TypeInstance |-> ti],
     DSNames |-> ds,
     Values |-> [i \in 1..n |-> [kind |-> k, v |-> 0]]] :
      p \in PluginNames, t \in TypeNames, ds \in DSNameLists, k \in ValueKinds,
      n \in 1..2, pi \in {<<>>, <<"0">>}, ti \in {<<>>, <<"u","s","e","r">>} }
NamingInputs ==
  { <<vl, i>> \in Samples \X (1..2) :
      /\ i <= Len(vl.Values)
      /\ vl.DSNames # <<>> => Len(vl.DSNames) = Len(vl.Values) }
NoSample ==
  [Identifier |-> [Host |-> <<>>, Plugin |-> <<>>, PluginInstance |-> <<>>,
                   Type |-> <<>>, TypeInstance |-> <<>>],
   DSNames |-> <<>>, Values |-> <<>>]

\* The characters metric_name_re does not match: [a-zA-Z0-9_:]
NameChars ==
  { "a", "b", "c", "d", "e", "f", "g", "h", "i", "j", "k", "l", "m", "n",
    "o", "p", "q", "r", "s", "t", "u", "v", "w", "x", "y", "z", "A", "B",
    "C", "D", "E", "F", "G", "H", "I", "J", "K", "L", "M", "N", "O", "P",
    "Q", "R", "S", "T", "U", "V", "W", "X", "Y", "Z", "0", "1", "2", "3",
    "4", "5", "6", "7", "8", "9",
    "_", ":" }

\* metric_name_re = regexp.MustCompile("[^a-zA-Z0-9_:]")
metric_name_re(ch) == ch \notin NameChars

\* Variant: the characters the expression matches are dropped.
ReplaceAllStringDropping(src, repl) ==
  SelectSeq(src, LAMBDA ch : ~ metric_name_re(ch))

\* metric_name_re.ReplaceAllString(src, repl): every match, one character, is
\* replaced by repl.
RECURSIVE ReplaceAllString(_, _)
ReplaceAllString(src, repl) ==
  IF src = <<>> THEN <<>>
  ELSE (IF metric_name_re(Head(src)) THEN repl ELSE <<Head(src)>>)
         \o ReplaceAllString(Tail(src), repl)

\* strconv.FormatInt of an index of the model (the code counts from 0).
Itoa(index) == << <<"0">>, <<"1">>, <<"2">> >>[index]

\* vl.DSName(index): the name of the data source if the value list names its
\* data sources, else "value" for a single value, else the index.
DSName(vl, index) ==
  IF Len(vl.DSNames) >= index THEN vl.DSNames[index]
  ELSE IF Len(vl.Values) = 1 THEN <<"v","a","l","u","e">>
  ELSE Itoa(index)

\* Variant: the plugin is also left out when the type starts with the plugin
\* and "_".
newNameOmittingPrefix(vl, index) ==
  LET id == vl.Identifier
      pre == id.Plugin \o <<"_">>
      base == IF id.Plugin = id.Type
                   \/ (Len(id.Type) >= Len(pre) /\ SubSeq(id.Type, 1, Len(pre)) = pre)
                THEN <<"c","o","l","l","e","c","t","d","_">> \o id.Type
                ELSE <<"c","o","l","l","e","c","t","d","_">> \o id.Plugin \o <<"_">> \o id.Type
      dsname == DSName(vl, index)
      named == IF dsname # <<"v","a","l","u","e">> THEN base \o <<"_">> \o dsname ELSE base
      total == IF vl.Values[index].kind \in {"Counter", "Derive"}
                 THEN named \o <<"_","t","o","t","a","l">> ELSE named
  IN ReplaceAllString(total, <<"_">>)

\* Variant: the plugin is never left out.
newNameNeverOmitting(vl, index) ==
  LET id == vl.Identifier
      base == <<"c","o","l","l","e","c","t","d","_">> \o id.Plugin \o <<"_">> \o id.Type
      dsname == DSName(vl, index)
      named == IF dsname # <<"v","a","l","u","e">> THEN base \o <<"_">> \o dsname ELSE base
      total == IF vl.Values[index].kind \in {"Counter", "Derive"}
                 THEN named \o <<"_","t","o","t","a","l">> ELSE named
  IN ReplaceAllString(total, <<"_">>)

\* Variant: "_total" comes before the data source name.
newNameTotalFirst(vl, index) ==
  LET id == vl.Identifier
      base == IF id.Plugin = id.Type
                THEN <<"c","o","l","l","e","c","t","d","_">> \o id.Type
                ELSE <<"c","o","l","l","e","c","t","d","_">> \o id.Plugin \o <<"_">> \o id.Type
      dsname == DSName(vl, index)
      total == IF vl.Values[index].kind \in {"Counter", "Derive"}
                 THEN base \o <<"_","t","o","t","a","l">> ELSE base
      named == IF dsname # <<"v","a","l","u","e">> THEN total \o <<"_">> \o dsname ELSE total
  IN ReplaceAllString(named, <<"_">>)

\* newName converts one data source of a value list to a string.
newName(vl, index) ==
  LET id == vl.Identifier
      base == IF id.Plugin = id.Type
                THEN <<"c","o","l","l","e","c","t","d","_">> \o id.Type
                ELSE <<"c","o","l","l","e","c","t","d","_">> \o id.Plugin \o <<"_">> \o id.Type
      dsname == DSName(vl, index)
      named == IF dsname # <<"v","a","l","u","e">> THEN base \o <<"_">> \o dsname ELSE base
      total == IF vl.Values[index].kind \in {"Counter", "Derive"}
                 THEN named \o <<"_","t","o","t","a","l">> ELSE named
  IN ReplaceAllString(total, <<"_">>)

\* labels[k] = v on a prometheus.Labels map
SetLabel(labels, k, v) ==
  [x \in DOMAIN labels \cup {k} |-> IF x = k THEN v ELSE labels[x]]

\* Variant: the type instance always gets the key "type".
newLabelsTypeKey(vl) ==
  LET id == vl.Identifier
      l1 == IF id.PluginInstance # <<>>
              THEN SetLabel(<< >>, id.Plugin, id.PluginInstance) ELSE << >>
      l2 == IF id.TypeInstance # <<>>
              THEN SetLabel(l1, <<"t","y","p","e">>, id.TypeInstance)
              ELSE l1
  IN SetLabel(l2, <<"i","n","s","t","a","n","c","e">>, id.Host)

\* newLabels converts the plugin and type instance of vl to a set of
\* prometheus.Labels.
newLabels(vl) ==
  LET id == vl.Identifier
      l1 == IF id.PluginInstance # <<>>
              THEN SetLabel(<< >>, id.Plugin, id.PluginInstance) ELSE << >>
      l2 == IF id.TypeInstance # <<>>
              THEN IF id.PluginInstance = <<>>
                     THEN SetLabel(l1, id.Plugin, id.TypeInstance)
                     ELSE SetLabel(l1, <<"t","y","p","e">>, id.TypeInstance)
              ELSE l1
  IN SetLabel(l2, <<"i","n","s","t","a","n","c","e">>, id.Host)

\* ------------------------------------------------------------ descriptions
\* The value lists in the map when a scrape is made: plugins and types whose
\* names differ or differ only in a character metric_name_re replaces, a
\* qualifier text carried as plugin instance, as type instance, as both or
\* not at all, and one unnamed or two named data sources.
StoredSamples ==
  { [Identifier |-> [Host |-> <<"h">>, Plugin |-> p, PluginInstance |-> pi,
                     Type |-> t, TypeInstance |-> ti],
     Time |-> 0, Interval |-> MaxInterval,
     DSNames |-> ds,
     Values |-> [i \in 1..(IF ds = <<>> THEN 1 ELSE Len(ds)) |->
                   [kind |-> "Derive", v |-> 0]]] :
      p \in { <<"c","p","u">>, <<"d","f">> },
      t \in { <<"c","p","u">>, <<"x",".","y">>, <<"x","_","y">> },
      pi \in { <<>>, <<"0">> }, ti \in { <<>>, <<"0">> },
      ds \in { <<>>, <<<<"r","x">>, <<"t","x">>>> } }

\* c.valueLists holding the value lists of S, each under its identifier string.
StoreOf(S) ==
  [k \in { IdentifierString(vl.Identifier) : vl \in S } |->
     CHOOSE vl \in S : IdentifierString(vl.Identifier) = k]

\* The maps of one or two entries.
Stores ==
  { StoreOf({a, b}) : a, b \in StoredSamples } \ { << >> }

\* newDesc: the name and the labels of the description.
newDesc(vl, index) == [name |-> newName(vl, index), labels |-> newLabels(vl)]

\* prometheus.NewConstMetric(newDesc(vl, index), valueType, value): the
\* metric newMetric returns, with its description.
ConstMetric(vl, index) ==
  LET m == newMetric(vl, index) IN
  [ok |-> m.ok, vl |-> vl, index |-> index, valueType |-> m.valueType,
   value |-> m.value, desc |-> newDesc(vl, index)]

\* The metrics one iteration of the range over the copy sends to ch, with
\* their descriptions.
RECURSIVE DescEmissions(_, _)
DescEmissions(vl, i) ==
  IF i > Len(vl.Values) THEN <<>>
  ELSE LET m == ConstMetric(vl, i) IN
       (IF m.ok THEN <<m>> ELSE <<>>) \o DescEmissions(vl, i + 1)

\* -------------------------------------------------------------- EC2 variant
\* The variant of the exporter that labels every metric with the tags of the
\* EC2 instance it runs on (unnamed/part_003).
MaxTags == 2        \* tags in one result of DescribeTags, the full set apart

\* The goroutines that may run refreshMetadata at once: the one main starts
\* and the ones the tag ticker of processSamples starts.
RefreshSlots == <<"refresh1", "refresh2">>
Refreshers == { RefreshSlots[i] : i \in DOMAIN RefreshSlots }

ETagName == <<"N","a","m","e">>
ETagApplication == <<"A","p","p","l","i","c","a","t","i","o","n">>
ETagEnvironment == <<"E","n","v","i","r","o","n","m","e","n","t">>
ETagStack == <<"S","t","a","c","k">>
ETagRole == <<"R","o","l","e">>

\* expectedTags of refreshMetadata
expectedTags == {ETagName, ETagApplication, ETagEnvironment, ETagStack, ETagRole}

\* The placeholder the test expects for a required tag that has no value.
Untagged == <<"U","n","t","a","g","g","e","d">>

\* *ec2.DescribeTagsOutput.Tags: the tags of the instance, a key at most once;
\* all five required tags, or up to MaxTags tags among a required key and one
\* that is not required, with or without a value.
FullTags ==
  << [Key |-> ETagApplication, Value |-> <<"A","p","p","y">>],
     [Key |-> ETagEnvironment, Value |-> <<"E","n","v","y">>],
     [Key |-> ETagStack, Value |-> <<"S","t","a","c","k","y">>],
     [Key |-> ETagRole, Value |-> <<"R","o","l","e","y">>],
     [Key |-> ETagName, Value |-> <<"N","a","m","e","y">>] >>
TagDescriptions ==
  [Key : {ETagApplication, <<"f","o","o">>},
   Value : {<<>>, <<"A","p","p","y">>}]
TagResults ==
  {FullTags} \cup
  { s \in UNION { [1..n -> TagDescriptions] : n \in 0..MaxTags } :
      \A i, j \in DOMAIN s : i # j => s[i].Key # s[j].Key }

\* What the instance metadata service returns for instance-id and local-ipv4.
InstanceId == <<"i","-","1">>
PrivateIpAddress == <<"1","0">>

\* metadata{tags: make(map[string]string)}
NoMetadata == [tags |-> << >>, instanceId |-> <<>>, privateIpAddress |-> <<>>]

\* if _, ok := expectedTags[*tag.Key]; ok { c.md.tags[*tag.Key] = *tag.Value }
TakeTag(tags, tag) ==
  IF tag.Key \in expectedTags THEN SetLabel(tags, tag.Key, tag.Value) ELSE tags

\* newLabels(vl, md) of the EC2 variant.
newLabelsEC2(vl, m) ==
  LET id == vl.Identifier
      l1 == IF ETagApplication \in DOMAIN m.tags
              THEN SetLabel(<< >>, ETagApplication, m.tags[ETagApplication])
              ELSE << >>
      l2 == IF ETagEnvironment \in DOMAIN m.tags
              THEN SetLabel(l1, ETagEnvironment, m.tags[ETagEnvironment])
              ELSE l1
      l3 == IF ETagStack \in DOMAIN m.tags /\ ETagRole \in DOMAIN m.tags
              THEN SetLabel(l2, <<"S","t","a","c","k","_","R","o","l","e">>,
                            m.tags[ETagStack] \o <<"_">> \o m.tags[ETagRole])
              ELSE l2
      l4 == SetLabel(l3, <<"H","o","s","t">>, m.instanceId)
      l5 == SetLabel(l4, <<"i","n","s","t","a","n","c","e">>, id.Host)
      l6 == IF id.PluginInstance # <<>>
              THEN SetLabel(l5, id.Plugin, id.PluginInstance) ELSE l5
  IN IF id.TypeInstance # <<>>
       THEN IF id.PluginInstance = <<>>
              THEN SetLabel(l6, id.Plugin, id.TypeInstance)
              ELSE SetLabel(l6, <<"t","y","p","e">>, id.TypeInstance)
       ELSE l6

\* The metrics one iteration of the range over the copy sends to ch in the
\* EC2 variant: newMetric(vl, i, c.md), with the labels of its description.
RECURSIVE EC2Emissions(_, _, _)
EC2Emissions(vl, i, m) ==
  IF i > Len(vl.Values) THEN <<>>
  ELSE LET x == newMetric(vl, i) IN
       (IF x.ok
          THEN << [ok |-> TRUE, vl |-> vl, index |-> i, valueType |-> x.valueType,
                   value |-> x.value, labels |-> newLabelsEC2(vl, m)] >>
          ELSE <<>>) \o EC2Emissions(vl, i + 1, m)

\* ------------------------------------------------------------------ state
VARIABLES
  now,          \* the wall clock
  valueLists,   \* c.valueLists: identifier string -> ValueList
  mu,           \* c.mu: the goroutine that holds it, or NoOne
  lastPush,     \* the lastPush gauge
  hpc, hbatch, hidx, hstatus,  \* collectdPost, per request: position, the
                \* decoded slice, the index of the range loop, the status sent
  wpc, wvl, wt, \* Write: position, argument, the time.Now() it read
  ppc, pvl, pnow,  \* processSamples: position, received vl, the sweep's now
  cpc, csnap, crest, cnow, csink,  \* Collect, per scrape
  lpc, ldgram,  \* ListenAndWrite: position, the datagram sock.Read returned
  lerrs,        \* the "error while parsing" lines ListenAndWrite has logged
  cancelled,    \* the context of startCollectdServer is done
  alive,        \* the process runs
  npc, nvl, nindex,  \* newDesc: position, the value list and index passed
  nname, nlabels,    \* what newName and newLabels returned
  md,           \* c.md of the EC2 variant: tags, instanceId, privateIpAddress
  rpc, rtags, ridx,  \* refreshMetadata, per goroutine: position, the result
                \* of DescribeTags, the index of the range loop
  cmd,          \* Collect of the EC2 variant: the md of its receiver copy
  calls,        \* Write calls, Collect calls and ticker events so far
  log,          \* history: the samples received and the sweeps that deleted
                \* an entry, in order
  hstart,       \* history: the length of log when the push was received
  hbody,        \* history: what the body of the push was
  herrs,        \* history: lerrs when the datagram of the dispatch was read
  cstart,       \* history: the length of log when the Collect was called
  clog          \* history: the length of AppliedLog when the Collect copied

vars == <<now, valueLists, mu, lastPush, hpc, hbatch, hidx, hstatus, hstart, hbody,
          wpc, wvl, wt, ppc, pvl, pnow,
          lpc, ldgram, lerrs, cancelled, alive, herrs,
          npc, nvl, nindex, nname, nlabels,
          md, rpc, rtags, ridx, cmd,
          cpc, csnap, crest, cnow, csink, calls, log, cstart, clog>>

nvars == <<npc, nvl, nindex, nname, nlabels>>
evars == <<md, rpc, rtags, ridx, cmd>>
lvars == <<lpc, ldgram, lerrs, cancelled, alive, herrs>>
hvars == <<hpc, hbatch, hidx, hstatus, hstart, hbody>>

wvars == <<wpc, wvl, wt>>
pvars == <<ppc, pvl, pnow>>
cvars == <<cpc, csnap, crest, cnow, csink, cstart, clog>>

\* The part of the history that has reached the map: a received sample is
\* stored by the next step of processSamples.
AppliedLog == IF ppc = "lock" THEN SubSeq(log, 1, Len(log) - 1) ELSE log

\* newCollectdCollector, and the goroutines at rest
Init ==
  /\ now = 0
  /\ valueLists = << >>
  /\ mu = NoOne
  /\ lastPush = 0
  /\ hpc = [w \in Writers |-> "idle"]
  /\ hbatch = [w \in Writers |-> <<>>]
  /\ hidx = [w \in Writers |-> 0]
  /\ hstatus = [w \in Writers |-> 0]
  /\ hstart = [w \in Writers |-> 0]
  /\ hbody = [w \in Writers |-> "none"]
  /\ npc = "idle"
  /\ nvl = NoSample
  /\ nindex = 0
  /\ nname = <<>>
  /\ nlabels = << >>
  /\ lpc = "read"
  /\ ldgram = NoDatagram
  /\ lerrs = 0
  /\ cancelled = FALSE
  /\ alive = TRUE
  /\ herrs = [w \in Writers |-> 0]
  /\ md = NoMetadata
  /\ rpc = [r \in Refreshers |-> "idle"]
  /\ rtags = [r \in Refreshers |-> <<>>]
  /\ ridx = [r \in Refreshers |-> 0]
  /\ cmd = [c \in Collectors |-> NoMetadata]
  /\ wpc = [w \in Writers |-> "idle"]
  /\ wvl = [w \in Writers |-> NoValueList]
  /\ wt = [w \in Writers |-> 0]
  /\ ppc = "select"
  /\ pvl = NoValueList
  /\ pnow = 0
  /\ cpc = [c \in Collectors |-> "idle"]
  /\ csnap = [c \in Collectors |-> {}]
  /\ crest = [c \in Collectors |-> {}]
  /\ cnow = [c \in Collectors |-> 0]
  /\ csink = [c \in Collectors |-> <<>>]
  /\ calls = 0
  /\ log = <<>>
  /\ cstart = [c \in Collectors |-> 0]
  /\ clog = [c \in Collectors |-> 0]

\* ------------------------------------------------------------------ clock
\* time.Now(): the clock never runs backwards, and time passes unobserved
\* between two readings; now is the latest reading.
TimeNow(t) ==
  /\ t \in now..MaxTime
  /\ now' = t

\* ----------------------------------------------------------- collectdPost
\* Variant: the handler sends status 400 for a body json.Unmarshal rejects
\* and goes on to the range loop over what was decoded.
PostCallIgnoringDecodeError(w) ==
  /\ hpc[w] = "idle"
  /\ wpc[w] = "idle"
  /\ LowestFree(WriterSlots, hpc, w)
  /\ \E body \in Bodies(now) :
       IF ~ body.readable
         THEN /\ calls < MaxCalls
              /\ calls' = calls + 1
              /\ hstatus' = [hstatus EXCEPT ![w] = 500]
              /\ hpc' = [hpc EXCEPT ![w] = "return"]
              /\ hbody' = [hbody EXCEPT ![w] = "unreadable"]
              /\ UNCHANGED hbatch
       ELSE IF ~ body.valid
         THEN /\ calls + Cost(body.elems) <= MaxCalls
              /\ calls' = calls + Cost(body.elems)
              /\ hstatus' = [hstatus EXCEPT ![w] = 400]
              /\ hbatch' = [hbatch EXCEPT ![w] = body.elems]
              /\ hpc' = [hpc EXCEPT ![w] = "range"]
              /\ hbody' = [hbody EXCEPT ![w] = "malformed"]
       ELSE /\ calls + Cost(body.elems) <= MaxCalls
            /\ calls' = calls + Cost(body.elems)
            /\ hbatch' = [hbatch EXCEPT ![w] = body.elems]
            /\ hpc' = [hpc EXCEPT ![w] = "range"]
            /\ hbody' = [hbody EXCEPT ![w] = "array"]
            /\ UNCHANGED hstatus
  /\ hstart' = [hstart EXCEPT ![w] = Len(log)]
  /\ UNCHANGED <<now, valueLists, mu, lastPush, hidx, wvars, pvars, cvars, log, lvars, nvars, evars>>

\* A push arrives: ioutil.ReadAll, json.Unmarshal, and http.Error with status
\* 500 or 400 when one of them fails; else the range loop over the decoded
\* slice starts.
PostCall(w) ==
  /\ hpc[w] = "idle"
  /\ wpc[w] = "idle"
  /\ LowestFree(WriterSlots, hpc, w)
  /\ \E body \in Bodies(now) :
       IF ~ body.readable
         THEN /\ calls < MaxCalls
              /\ calls' = calls + 1
              /\ hstatus' = [hstatus EXCEPT ![w] = 500]
              /\ hpc' = [hpc EXCEPT ![w] = "return"]
              /\ hbody' = [hbody EXCEPT ![w] = "unreadable"]
              /\ UNCHANGED hbatch
       ELSE IF ~ body.valid
         THEN /\ calls < MaxCalls
              /\ calls' = calls + 1
              /\ hstatus' = [hstatus EXCEPT ![w] = 400]
              /\ hpc' = [hpc EXCEPT ![w] = "return"]
              /\ hbody' = [hbody EXCEPT ![w] = "malformed"]
              /\ UNCHANGED hbatch
       ELSE /\ calls + Cost(body.elems) <= MaxCalls
            /\ calls' = calls + Cost(body.elems)
            /\ hbatch' = [hbatch EXCEPT ![w] = body.elems]
            /\ hpc' = [hpc EXCEPT ![w] = "range"]
            /\ hbody' = [hbody EXCEPT ![w] = "array"]
            /\ UNCHANGED hstatus
  /\ hstart' = [hstart EXCEPT ![w] = Len(log)]
  /\ UNCHANGED <<now, valueLists, mu, lastPush, hidx, wvars, pvars, cvars, log, lvars, nvars, evars>>

\* Variant: the range loop goes through the slice from its end.
PostWriteBackwards(w) ==
  /\ hpc[w] = "range"
  /\ wpc[w] = "idle"
  /\ hidx[w] < Len(hbatch[w])
  /\ hidx' = [hidx EXCEPT ![w] = @ + 1]
  /\ \E t \in 0..MaxTime :
       /\ TimeNow(t)
       /\ wt' = [wt EXCEPT ![w] = t]
  /\ wvl' = [wvl EXCEPT ![w] = hbatch[w][Len(hbatch[w]) - hidx[w]].vl]
  /\ wpc' = [wpc EXCEPT ![w] = "set"]
  /\ UNCHANGED <<valueLists, mu, lastPush, hpc, hbatch, hstatus, hstart, hbody,
                 pvars, cvars, calls, log, lvars, nvars, evars>>

\* for _, vl := range valueLists { c.Write(r.Context(), vl) }: the next
\* element is passed to Write, and the argument of lastPush.Set is evaluated.
PostWrite(w) ==
  /\ hpc[w] = "range"
  /\ wpc[w] = "idle"
  /\ hidx[w] < Len(hbatch[w])
  /\ hidx' = [hidx EXCEPT ![w] = @ + 1]
  /\ \E t \in 0..MaxTime :
       /\ TimeNow(t)
       /\ wt' = [wt EXCEPT ![w] = t]
  /\ wvl' = [wvl EXCEPT ![w] = hbatch[w][hidx[w] + 1].vl]
  /\ wpc' = [wpc EXCEPT ![w] = "set"]
  /\ UNCHANGED <<valueLists, mu, lastPush, hpc, hbatch, hstatus, hstart, hbody,
                 pvars, cvars, calls, log, lvars, nvars, evars>>

\* The handler is over: after http.Error, at the end of the range loop, or
\* by a panic.
PostReturn(w) ==
  /\ \/ hpc[w] \in {"return", "panic"}
     \/ hpc[w] = "range" /\ wpc[w] = "idle" /\ hidx[w] = Len(hbatch[w])
  /\ hpc' = [hpc EXCEPT ![w] = "idle"]
  /\ hbatch' = [hbatch EXCEPT ![w] = <<>>]
  /\ hidx' = [hidx EXCEPT ![w] = 0]
  /\ hstatus' = [hstatus EXCEPT ![w] = 0]
  /\ hstart' = [hstart EXCEPT ![w] = 0]
  /\ hbody' = [hbody EXCEPT ![w] = "none"]
  /\ UNCHANGED <<now, valueLists, mu, lastPush, wvars, pvars, cvars, calls, log, lvars, nvars, evars>>

\* ------------------------------------------------------------------ Write
\* The argument of the Write in progress is a nil element of a push: no value
\* list is behind it.
IsNilArg(w) == hpc[w] = "range" /\ wvl[w] = NilPtr.vl

\* A producer calls Write(vl); the argument of lastPush.Set is evaluated.
WriteCall(w) ==
  /\ wpc[w] = "idle"
  /\ LowestFree(WriterSlots, wpc, w)
  /\ calls < MaxCalls
  /\ \E t \in 0..MaxTime :
       /\ TimeNow(t)
       /\ wt' = [wt EXCEPT ![w] = t]
       /\ \E vl \in ValueListsAt(t) :
            wvl' = [wvl EXCEPT ![w] = vl]
  /\ wpc' = [wpc EXCEPT ![w] = "set"]
  /\ calls' = calls + 1
  /\ UNCHANGED <<valueLists, mu, lastPush, hvars, pvars, cvars, log, lvars, nvars, evars>>

\* lastPush.Set(...)
WriteSet(w) ==
  /\ wpc[w] = "set"
  /\ lastPush' = wt[w]
  /\ wpc' = [wpc EXCEPT ![w] = "send"]
  /\ UNCHANGED <<now, valueLists, mu, hvars, wvl, wt, pvars, cvars, calls, log, lvars, nvars, evars>>

\* Variant: a send that does not wait for processSamples and drops the sample
\* when processSamples is not in its select.
WriteSendDropping(w) ==
  /\ wpc[w] = "send"
  /\ ~ IsNilArg(w)
  /\ IF ppc = "select"
       THEN pvl' = wvl[w] /\ ppc' = "lock"
       ELSE UNCHANGED <<pvl, ppc>>
  /\ wpc' = [wpc EXCEPT ![w] = "idle"]
  /\ wvl' = [wvl EXCEPT ![w] = NoValueList]
  /\ wt' = [wt EXCEPT ![w] = 0]
  /\ log' = Append(log, [op |-> "put", vl |-> wvl[w], at |-> wt[w]])
  /\ UNCHANGED <<now, valueLists, mu, lastPush, hvars, pnow, cvars, calls, lvars, nvars, evars>>

\* c.ch <- *vl meets case vl := <-c.ch: the channel has no buffer, so the
\* send completes when processSamples receives, and Write returns nil.
WriteSend(w) ==
  /\ wpc[w] = "send"
  /\ ~ IsNilArg(w)
  /\ ppc = "select"
  /\ pvl' = wvl[w]
  /\ ppc' = "lock"
  /\ wpc' = [wpc EXCEPT ![w] = "idle"]
  /\ wvl' = [wvl EXCEPT ![w] = NoValueList]
  /\ wt' = [wt EXCEPT ![w] = 0]
  /\ log' = Append(log, [op |-> "put", vl |-> wvl[w], at |-> wt[w]])
  /\ UNCHANGED <<now, valueLists, mu, lastPush, hvars, pnow, cvars, calls, lvars, nvars, evars>>

\* c.ch <- *vl with vl == nil: the dereference panics, Write and the range
\* loop of the handler are unwound, and the goroutine of the request ends
\* (net/http recovers the panic and closes the connection).
WritePanic(w) ==
  /\ wpc[w] = "send"
  /\ IsNilArg(w)
  /\ wpc' = [wpc EXCEPT ![w] = "idle"]
  /\ wvl' = [wvl EXCEPT ![w] = NoValueList]
  /\ wt' = [wt EXCEPT ![w] = 0]
  /\ hpc' = [hpc EXCEPT ![w] = "panic"]
  /\ UNCHANGED <<now, valueLists, mu, lastPush, hbatch, hidx, hstatus, hstart,
                 hbody, pvars, cvars, calls, log, lvars, nvars, evars>>

\* --------------------------------------------------------- processSamples
\* id := vl.Identifier.String(); c.mu.Lock(); c.valueLists[id] = vl
Store ==
  /\ ppc = "lock"
  /\ mu = NoOne
  /\ mu' = ProcessSamplesId
  /\ valueLists' = MapPut(valueLists, IdentifierString(pvl.Identifier), pvl)
  /\ ppc' = "unlock"
  /\ UNCHANGED <<now, lastPush, hvars, wvars, pvl, pnow, cvars, calls, log, lvars, nvars, evars>>

\* Variant: the ticker case never unlocks.
UnlockStoreOnly ==
  /\ ppc = "unlock"
  /\ mu' = NoOne
  /\ ppc' = "select"
  /\ pvl' = NoValueList
  /\ pnow' = 0
  /\ UNCHANGED <<now, valueLists, lastPush, hvars, wvars, cvars, calls, log, lvars, nvars, evars>>

\* c.mu.Unlock() of either case
Unlock ==
  /\ ppc \in {"unlock", "gc_unlock"}
  /\ mu' = NoOne
  /\ ppc' = "select"
  /\ pvl' = NoValueList
  /\ pnow' = 0
  /\ UNCHANGED <<now, valueLists, lastPush, hvars, wvars, cvars, calls, log, lvars, nvars, evars>>

\* case <-ticker: now := time.Now().  (Next counts the ticker events among
\* the calls of a behaviour, PeriodicNext does not.)
Ticker ==
  /\ ppc = "select"
  /\ \E t \in 0..MaxTime :
       /\ TimeNow(t)
       /\ pnow' = t
  /\ ppc' = "gc_lock"
  /\ UNCHANGED <<valueLists, mu, lastPush, hvars, wvars, pvl, cvars, log, lvars, nvars, evars>>

\* Variant: a pass that finds the map empty goes back to the select without
\* unlocking.
SweepSkippingEmpty ==
  /\ ppc = "gc_lock"
  /\ mu = NoOne
  /\ mu' = ProcessSamplesId
  /\ valueLists' = MapSweep(valueLists, pnow)
  /\ IF valueLists = << >>
       THEN ppc' = "select" /\ pnow' = 0
       ELSE ppc' = "gc_unlock" /\ pnow' = pnow
  /\ log' = IF MapSweep(valueLists, pnow) = valueLists THEN log
             ELSE Append(log, [op |-> "sweep", vl |-> NoValueList, at |-> pnow])
  /\ UNCHANGED <<now, lastPush, hvars, wvars, pvl, cvars, calls, lvars, nvars, evars>>

\* c.mu.Lock(); for id, vl := range c.valueLists { ... delete(c.valueLists, id) }
Sweep ==
  /\ ppc = "gc_lock"
  /\ mu = NoOne
  /\ mu' = ProcessSamplesId
  /\ valueLists' = MapSweep(valueLists, pnow)
  /\ ppc' = "gc_unlock"
  /\ log' = IF MapSweep(valueLists, pnow) = valueLists THEN log
             ELSE Append(log, [op |-> "sweep", vl |-> NoValueList, at |-> pnow])
  /\ UNCHANGED <<now, lastPush, hvars, wvars, pvl, pnow, cvars, calls, lvars, nvars, evars>>

\* ---------------------------------------------------------------- Collect
CollectCall(c) ==
  /\ cpc[c] = "idle"
  /\ LowestFree(CollectorSlots, cpc, c)
  /\ calls < MaxCalls
  /\ calls' = calls + 1
  /\ cpc' = [cpc EXCEPT ![c] = "lastPush"]
  /\ cstart' = [cstart EXCEPT ![c] = Len(log)]
  /\ UNCHANGED <<now, valueLists, mu, lastPush, hvars, wvars, pvars,
                 csnap, crest, cnow, csink, log, clog, lvars, nvars, evars>>

\* Variant: the lastPush gauge is sent only when the map holds an entry.
CollectLastPushIfAny(c) ==
  /\ cpc[c] = "lastPush"
  /\ csink' = [csink EXCEPT ![c] =
                 IF valueLists = << >> THEN @ ELSE Append(@, LastPushMetric(lastPush))]
  /\ cpc' = [cpc EXCEPT ![c] = "lock"]
  /\ UNCHANGED <<now, valueLists, mu, lastPush, hvars, wvars, pvars,
                 csnap, crest, cnow, calls, log, cstart, clog, lvars, nvars, evars>>

\* ch <- lastPush
CollectLastPush(c) ==
  /\ cpc[c] = "lastPush"
  /\ csink' = [csink EXCEPT ![c] = Append(@, LastPushMetric(lastPush))]
  /\ cpc' = [cpc EXCEPT ![c] = "lock"]
  /\ UNCHANGED <<now, valueLists, mu, lastPush, hvars, wvars, pvars,
                 csnap, crest, cnow, calls, log, cstart, clog, lvars, nvars, evars>>

\* Variant: the copy keeps one entry only.
CollectCopyLastOnly(c) ==
  /\ cpc[c] = "lock"
  /\ mu = NoOne
  /\ mu' = c
  /\ \/ valueLists = << >> /\ csnap' = [csnap EXCEPT ![c] = {}]
     \/ \E k \in DOMAIN valueLists : csnap' = [csnap EXCEPT ![c] = {valueLists[k]}]
  /\ cpc' = [cpc EXCEPT ![c] = "unlock"]
  /\ clog' = [clog EXCEPT ![c] = Len(AppliedLog)]
  /\ UNCHANGED <<now, valueLists, lastPush, hvars, wvars, pvars, crest, cnow, csink,
                 calls, log, cstart, lvars, nvars, evars>>

\* Variant: the copy does not wait for the mutex.
CollectCopyUnlocked(c) ==
  /\ cpc[c] = "lock"
  /\ mu' = c
  /\ csnap' = [csnap EXCEPT ![c] = { valueLists[k] : k \in DOMAIN valueLists }]
  /\ cpc' = [cpc EXCEPT ![c] = "unlock"]
  /\ clog' = [clog EXCEPT ![c] = Len(AppliedLog)]
  /\ UNCHANGED <<now, valueLists, lastPush, hvars, wvars, pvars, crest, cnow, csink,
                 calls, log, cstart, lvars, nvars, evars>>

\* c.mu.Lock(); for _, vl := range c.valueLists { valueLists = append(valueLists, vl) }
CollectCopy(c) ==
  /\ cpc[c] = "lock"
  /\ mu = NoOne
  /\ mu' = c
  /\ csnap' = [csnap EXCEPT ![c] = { valueLists[k] : k \in DOMAIN valueLists }]
  /\ cpc' = [cpc EXCEPT ![c] = "unlock"]
  /\ clog' = [clog EXCEPT ![c] = Len(AppliedLog)]
  /\ UNCHANGED <<now, valueLists, lastPush, hvars, wvars, pvars, crest, cnow, csink,
                 calls, log, cstart, lvars, nvars, evars>>

\* Variant: the mutex is kept for the rest of Collect.
CollectUnlockDeferred(c) ==
  /\ cpc[c] = "unlock"
  /\ \E t \in 0..MaxTime :
       /\ TimeNow(t)
       /\ cnow' = [cnow EXCEPT ![c] = t]
  /\ crest' = [crest EXCEPT ![c] = csnap[c]]
  /\ cpc' = [cpc EXCEPT ![c] = "range"]
  /\ UNCHANGED <<valueLists, mu, lastPush, hvars, wvars, pvars, csnap, csink, calls,
                 log, cstart, clog, lvars, nvars, evars>>

\* c.mu.Unlock(); now := time.Now()
CollectUnlock(c) ==
  /\ cpc[c] = "unlock"
  /\ mu' = NoOne
  /\ \E t \in 0..MaxTime :
       /\ TimeNow(t)
       /\ cnow' = [cnow EXCEPT ![c] = t]
  /\ crest' = [crest EXCEPT ![c] = csnap[c]]
  /\ cpc' = [cpc EXCEPT ![c] = "range"]
  /\ UNCHANGED <<valueLists, lastPush, hvars, wvars, pvars, csnap, csink, calls,
                 log, cstart, clog, lvars, nvars, evars>>

\* Variant: the loop over vl.Values ends at the first error of newMetric.
RECURSIVE EmissionsStoppingAtError(_, _)
EmissionsStoppingAtError(vl, i) ==
  IF i > Len(vl.Values) THEN <<>>
  ELSE LET m == newMetric(vl, i) IN
       IF m.ok THEN <<m>> \o EmissionsStoppingAtError(vl, i + 1) ELSE <<>>

\* The metrics one iteration of "for _, vl := range valueLists" sends to ch:
\* none when validUntil.Before(now), else newMetric(vl, i) for every i in
\* range vl.Values for which newMetric returns no error.
RECURSIVE Emissions(_, _)
Emissions(vl, i) ==
  IF i > Len(vl.Values) THEN <<>>
  ELSE LET m == newMetric(vl, i) IN
       (IF m.ok THEN <<m>> ELSE <<>>) \o Emissions(vl, i + 1)

\* Variant: the range loop reads the clock for every entry.
CollectRangeRereading(c) ==
  /\ cpc[c] = "range"
  /\ \E vl \in crest[c] : \E t \in now..MaxTime :
       /\ now' = t
       /\ crest' = [crest EXCEPT ![c] = @ \ {vl}]
       /\ csink' = [csink EXCEPT ![c] =
                      IF Expired(vl, t) THEN @ ELSE @ \o Emissions(vl, 1)]
  /\ UNCHANGED <<valueLists, mu, lastPush, hvars, wvars, pvars, cpc, csnap, cnow,
                 calls, log, cstart, clog, lvars, nvars, evars>>

\* Variant: the range loop reads the entry the map holds now for the key of
\* the copied entry.
CollectRangeLive(c) ==
  /\ cpc[c] = "range"
  /\ \E vl \in crest[c] :
       /\ crest' = [crest EXCEPT ![c] = @ \ {vl}]
       /\ LET k == IdentifierString(vl.Identifier) IN
          csink' = [csink EXCEPT ![c] =
                      IF k \notin DOMAIN valueLists \/ Expired(valueLists[k], cnow[c])
                        THEN @ ELSE @ \o Emissions(valueLists[k], 1)]
  /\ UNCHANGED <<now, valueLists, mu, lastPush, hvars, wvars, pvars, cpc, csnap, cnow,
                 calls, log, cstart, clog, lvars, nvars, evars>>

\* One iteration of for _, vl := range valueLists
CollectRange(c) ==
  /\ cpc[c] = "range"
  /\ \E vl \in crest[c] :
       /\ crest' = [crest EXCEPT ![c] = @ \ {vl}]
       /\ csink' = [csink EXCEPT ![c] =
                      IF Expired(vl, cnow[c]) THEN @ ELSE @ \o Emissions(vl, 1)]
  /\ UNCHANGED <<now, valueLists, mu, lastPush, hvars, wvars, pvars, cpc, csnap, cnow,
                 calls, log, cstart, clog, lvars, nvars, evars>>

\* Collect returns when the range over the copy is exhausted.
CollectReturn(c) ==
  /\ cpc[c] = "range"
  /\ crest[c] = {}
  /\ cpc' = [cpc EXCEPT ![c] = "idle"]
  /\ csnap' = [csnap EXCEPT ![c] = {}]
  /\ cnow' = [cnow EXCEPT ![c] = 0]
  /\ csink' = [csink EXCEPT ![c] = <<>>]
  /\ cstart' = [cstart EXCEPT ![c] = 0]
  /\ clog' = [clog EXCEPT ![c] = 0]
  /\ UNCHANGED <<now, valueLists, mu, lastPush, hvars, wvars, pvars, crest, calls, log, lvars, nvars, evars>>

\* ------------------------------------------------------------------- Next
Next ==
  \/ \E w \in Writers : WriteCall(w)
  \/ \E w \in Writers : WriteSet(w)
  \/ \E w \in Writers : WriteSend(w)
  \/ Store
  \/ Unlock
  \/ (calls < MaxCalls /\ calls' = calls + 1 /\ Ticker)
  \/ Sweep
  \/ \E c \in Collectors : CollectCall(c)
  \/ \E c \in Collectors : CollectLastPush(c)
  \/ \E c \in Collectors : CollectCopy(c)
  \/ \E c \in Collectors : CollectUnlock(c)
  \/ \E c \in Collectors : CollectRange(c)
  \/ \E c \in Collectors : CollectReturn(c)

Spec == Init /\ [][Next]_vars

\* Scheduling: a goroutine that can take a step of its own takes it; a
\* goroutine waiting in Lock gets the mutex (sync.Mutex hands it to a starving
\* waiter) and a sender waiting on c.ch is received, as processSamples comes
\* back to its select again and again.  Nothing makes a producer call Write,
\* the ticker fire, a scrape start or the sink of a Collect accept an emission.
Fairness ==
  /\ \A w \in Writers : WF_vars(WriteSet(w)) /\ SF_vars(WriteSend(w))
  /\ SF_vars(Store)
  /\ SF_vars(Sweep)
  /\ WF_vars(Unlock)
  /\ \A c \in Collectors : SF_vars(CollectCopy(c)) /\ WF_vars(CollectUnlock(c))

\* The same collector when the clock stands at MaxTime from the start.
LateInit ==
  /\ now = MaxTime
  /\ valueLists = << >>
  /\ mu = NoOne
  /\ lastPush = 0
  /\ hpc = [w \in Writers |-> "idle"]
  /\ hbatch = [w \in Writers |-> <<>>]
  /\ hidx = [w \in Writers |-> 0]
  /\ hstatus = [w \in Writers |-> 0]
  /\ hstart = [w \in Writers |-> 0]
  /\ hbody = [w \in Writers |-> "none"]
  /\ npc = "idle"
  /\ nvl = NoSample
  /\ nindex = 0
  /\ nname = <<>>
  /\ nlabels = << >>
  /\ lpc = "read"
  /\ ldgram = NoDatagram
  /\ lerrs = 0
  /\ cancelled = FALSE
  /\ alive = TRUE
  /\ herrs = [w \in Writers |-> 0]
  /\ md = NoMetadata
  /\ rpc = [r \in Refreshers |-> "idle"]
  /\ rtags = [r \in Refreshers |-> <<>>]
  /\ ridx = [r \in Refreshers |-> 0]
  /\ cmd = [c \in Collectors |-> NoMetadata]
  /\ wpc = [w \in Writers |-> "idle"]
  /\ wvl = [w \in Writers |-> NoValueList]
  /\ wt = [w \in Writers |-> 0]
  /\ ppc = "select"
  /\ pvl = NoValueList
  /\ pnow = 0
  /\ cpc = [c \in Collectors |-> "idle"]
  /\ csnap = [c \in Collectors |-> {}]
  /\ crest = [c \in Collectors |-> {}]
  /\ cnow = [c \in Collectors |-> 0]
  /\ csink = [c \in Collectors |-> <<>>]
  /\ calls = 0
  /\ log = <<>>
  /\ cstart = [c \in Collectors |-> 0]
  /\ clog = [c \in Collectors |-> 0]

FairSpec == LateInit /\ [][Next]_vars /\ Fairness

\* The collector with a ticker that goes on firing: the ticker events are
\* not counted.  Of the cases of a select that are ready one is chosen at
\* random, so the ticker case is taken again and again.
PeriodicNext ==
  \/ \E w \in Writers : WriteCall(w)
  \/ \E w \in Writers : WriteSet(w)
  \/ \E w \in Writers : WriteSend(w)
  \/ Store
  \/ Unlock
  \/ (UNCHANGED calls /\ Ticker)
  \/ Sweep
  \/ \E c \in Collectors : CollectCall(c)
  \/ \E c \in Collectors : CollectLastPush(c)
  \/ \E c \in Collectors : CollectCopy(c)
  \/ \E c \in Collectors : CollectUnlock(c)
  \/ \E c \in Collectors : CollectRange(c)
  \/ \E c \in Collectors : CollectReturn(c)

PeriodicSpec ==
  LateInit /\ [][PeriodicNext]_vars /\ Fairness /\ SF_vars(UNCHANGED calls /\ Ticker)

\* A scrape whose sink accepts every emission.
SinkFairness ==
  \A c \in Collectors :
    /\ WF_vars(CollectLastPush(c))
    /\ WF_vars(CollectRange(c))
    /\ WF_vars(CollectReturn(c))

SinkFairSpec == LateInit /\ [][Next]_vars /\ Fairness /\ SinkFairness

\* The HTTP push handler and the store: the producers are requests to
\* collectdPost.
PostNext ==
  \/ \E w \in Writers : PostCall(w)
  \/ \E w \in Writers : PostWrite(w)
  \/ \E w \in Writers : WriteSet(w)
  \/ \E w \in Writers : WriteSend(w)
  \/ \E w \in Writers : WritePanic(w)
  \/ \E w \in Writers : PostReturn(w)
  \/ Store
  \/ Unlock
  \/ (calls < MaxCalls /\ calls' = calls + 1 /\ Ticker)
  \/ Sweep

\* The pushes arrive when the clock stands one unit before MaxTime.
PostInit ==
  /\ now = MaxTime - 1
  /\ valueLists = << >>
  /\ mu = NoOne
  /\ lastPush = 0
  /\ hpc = [w \in Writers |-> "idle"]
  /\ hbatch = [w \in Writers |-> <<>>]
  /\ hidx = [w \in Writers |-> 0]
  /\ hstatus = [w \in Writers |-> 0]
  /\ hstart = [w \in Writers |-> 0]
  /\ hbody = [w \in Writers |-> "none"]
  /\ npc = "idle"
  /\ nvl = NoSample
  /\ nindex = 0
  /\ nname = <<>>
  /\ nlabels = << >>
  /\ lpc = "read"
  /\ ldgram = NoDatagram
  /\ lerrs = 0
  /\ cancelled = FALSE
  /\ alive = TRUE
  /\ herrs = [w \in Writers |-> 0]
  /\ md = NoMetadata
  /\ rpc = [r \in Refreshers |-> "idle"]
  /\ rtags = [r \in Refreshers |-> <<>>]
  /\ ridx = [r \in Refreshers |-> 0]
  /\ cmd = [c \in Collectors |-> NoMetadata]
  /\ wpc = [w \in Writers |-> "idle"]
  /\ wvl = [w \in Writers |-> NoValueList]
  /\ wt = [w \in Writers |-> 0]
  /\ ppc = "select"
  /\ pvl = NoValueList
  /\ pnow = 0
  /\ cpc = [c \in Collectors |-> "idle"]
  /\ csnap = [c \in Collectors |-> {}]
  /\ crest = [c \in Collectors |-> {}]
  /\ cnow = [c \in Collectors |-> 0]
  /\ csink = [c \in Collectors |-> <<>>]
  /\ calls = 0
  /\ log = <<>>
  /\ cstart = [c \in Collectors |-> 0]
  /\ clog = [c \in Collectors |-> 0]

PostSpec == PostInit /\ [][PostNext]_vars

\* --------------------------------------------------------- ListenAndWrite
\* The goroutine slots a dispatch can be started in.
FreeSlot(w) == hpc[w] = "idle" /\ wpc[w] = "idle" /\ LowestFree(WriterSlots, hpc, w)

\* What one datagram counts for among the calls of a behaviour.
DatagramCost(d) == IF d.malformed THEN 1 ELSE Cost(d.parts)

\* n, err := sock.Read(buf) returns a datagram.
ListenRead ==
  /\ lpc = "read"
  /\ \E w \in Writers : FreeSlot(w)
  /\ \E d \in Datagrams(now) :
       /\ calls + DatagramCost(d) <= MaxCalls
       /\ calls' = calls + DatagramCost(d)
       /\ ldgram' = d
  /\ lpc' = "parse"
  /\ UNCHANGED <<now, valueLists, mu, lastPush, hvars, wvars, pvars, cvars, log,
                 lerrs, cancelled, alive, herrs, nvars, evars>>

\* Variant: the value lists of a datagram that fails to parse are dispatched
\* after the error is logged.
ListenParseDispatchingAnyway ==
  /\ lpc = "parse"
  /\ lerrs' = IF ldgram.malformed THEN lerrs + 1 ELSE lerrs
  /\ \E w \in Writers :
       /\ FreeSlot(w)
       /\ hpc' = [hpc EXCEPT ![w] = "range"]
       /\ hbatch' = [hbatch EXCEPT ![w] = [i \in DOMAIN ldgram.parts |-> Ptr(ldgram.parts[i])]]
       /\ hbody' = [hbody EXCEPT ![w] = "datagram"]
       /\ hstart' = [hstart EXCEPT ![w] = Len(log)]
       /\ herrs' = [herrs EXCEPT ![w] = lerrs]
  /\ lpc' = "read"
  /\ ldgram' = NoDatagram
  /\ UNCHANGED <<now, valueLists, mu, lastPush, hidx, hstatus, wvars, pvars, cvars,
                 calls, log, cancelled, alive, nvars, evars>>

\* valueLists, err := Parse(buf[:n], popts): on an error log.Printf and
\* continue, else go dispatch(valueLists, srv.Writer); then the next Read.
ListenParse ==
  /\ lpc = "parse"
  /\ IF ldgram.malformed
       THEN /\ lerrs' = lerrs + 1
            /\ UNCHANGED <<hpc, hbatch, hbody, hstart, herrs>>
       ELSE /\ \E w \in Writers :
                 /\ FreeSlot(w)
                 /\ hpc' = [hpc EXCEPT ![w] = "range"]
                 /\ hbatch' = [hbatch EXCEPT ![w] =
                                 [i \in DOMAIN ldgram.parts |-> Ptr(ldgram.parts[i])]]
                 /\ hbody' = [hbody EXCEPT ![w] = "datagram"]
                 /\ hstart' = [hstart EXCEPT ![w] = Len(log)]
                 /\ herrs' = [herrs EXCEPT ![w] = lerrs]
            /\ UNCHANGED lerrs
  /\ lpc' = "read"
  /\ ldgram' = NoDatagram
  /\ UNCHANGED <<now, valueLists, mu, lastPush, hidx, hstatus, wvars, pvars, cvars,
                 calls, log, cancelled, alive, nvars, evars>>

\* sock.Read returns an error: ListenAndWrite returns it, and the goroutine
\* startCollectdServer started passes it to log.Fatal, which ends the process.
ListenFatal ==
  /\ lpc = "read"
  /\ lpc' = "exited"
  /\ alive' = FALSE
  /\ UNCHANGED <<now, valueLists, mu, lastPush, hvars, wvars, pvars, cvars, calls, log,
                 ldgram, lerrs, cancelled, herrs, nvars, evars>>

\* The context passed to startCollectdServer is cancelled.
Cancel ==
  /\ ~ cancelled
  /\ cancelled' = TRUE
  /\ UNCHANGED <<now, valueLists, mu, lastPush, hvars, wvars, pvars, cvars, calls, log,
                 lpc, ldgram, lerrs, alive, herrs, nvars, evars>>

\* dispatch: for _, vl := range valueLists { d.Write(vl) }, the next value
\* list is passed to Write.
DispatchWrite(w) ==
  /\ hbody[w] = "datagram"
  /\ hpc[w] = "range"
  /\ wpc[w] = "idle"
  /\ hidx[w] < Len(hbatch[w])
  /\ hidx' = [hidx EXCEPT ![w] = @ + 1]
  /\ \E t \in 0..MaxTime :
       /\ TimeNow(t)
       /\ wt' = [wt EXCEPT ![w] = t]
  /\ wvl' = [wvl EXCEPT ![w] = hbatch[w][hidx[w] + 1].vl]
  /\ wpc' = [wpc EXCEPT ![w] = "set"]
  /\ UNCHANGED <<valueLists, mu, lastPush, hpc, hbatch, hstatus, hstart, hbody,
                 pvars, cvars, calls, log, lvars, nvars, evars>>

\* dispatch returns at the end of its range loop, and its goroutine ends.
DispatchReturn(w) ==
  /\ hbody[w] = "datagram"
  /\ hpc[w] = "range" /\ wpc[w] = "idle" /\ hidx[w] = Len(hbatch[w])
  /\ hpc' = [hpc EXCEPT ![w] = "idle"]
  /\ hbatch' = [hbatch EXCEPT ![w] = <<>>]
  /\ hidx' = [hidx EXCEPT ![w] = 0]
  /\ hstatus' = [hstatus EXCEPT ![w] = 0]
  /\ hstart' = [hstart EXCEPT ![w] = 0]
  /\ hbody' = [hbody EXCEPT ![w] = "none"]
  /\ herrs' = [herrs EXCEPT ![w] = 0]
  /\ UNCHANGED <<now, valueLists, mu, lastPush, wvars, pvars, cvars, calls, log,
                 lpc, ldgram, lerrs, cancelled, alive, nvars, evars>>

\* The binary protocol server and the store, while the process runs.
ListenNext ==
  \/ (alive /\ ListenRead)
  \/ (alive /\ ListenParse)
  \/ (alive /\ ListenFatal)
  \/ (alive /\ Cancel)
  \/ \E w \in Writers : alive /\ DispatchWrite(w)
  \/ \E w \in Writers : alive /\ WriteSet(w)
  \/ \E w \in Writers : alive /\ WriteSend(w)
  \/ \E w \in Writers : alive /\ DispatchReturn(w)
  \/ (alive /\ Store)
  \/ (alive /\ Unlock)
  \/ (alive /\ calls < MaxCalls /\ calls' = calls + 1 /\ Ticker)
  \/ (alive /\ Sweep)

\* Scheduling of the server: a goroutine that can take a step of its own
\* takes it, a sender on c.ch is received and a waiter gets the mutex.
\* Nothing makes a datagram arrive, the socket fail, the context be cancelled
\* or the ticker fire.
ListenFairness ==
  /\ WF_vars(alive /\ ListenParse)
  /\ \A w \in Writers :
       /\ WF_vars(alive /\ DispatchWrite(w))
       /\ WF_vars(alive /\ WriteSet(w))
       /\ SF_vars(alive /\ WriteSend(w))
       /\ WF_vars(alive /\ DispatchReturn(w))
  /\ SF_vars(alive /\ Store)
  /\ SF_vars(alive /\ Sweep)
  /\ WF_vars(alive /\ Unlock)

ListenSpec == PostInit /\ [][ListenNext]_vars /\ ListenFairness

\* ---------------------------------------------------------------- newDesc
\* newDesc is called with a value list and an index, the collector at rest.
NameInit ==
  /\ now = 0
  /\ valueLists = << >>
  /\ mu = NoOne
  /\ lastPush = 0
  /\ hpc = [w \in Writers |-> "idle"]
  /\ hbatch = [w \in Writers |-> <<>>]
  /\ hidx = [w \in Writers |-> 0]
  /\ hstatus = [w \in Writers |-> 0]
  /\ hstart = [w \in Writers |-> 0]
  /\ hbody = [w \in Writers |-> "none"]
  /\ npc = "newName"
  /\ \E input \in NamingInputs : nvl = input[1] /\ nindex = input[2]
  /\ nname = <<>>
  /\ nlabels = << >>
  /\ lpc = "read"
  /\ ldgram = NoDatagram
  /\ lerrs = 0
  /\ cancelled = FALSE
  /\ alive = TRUE
  /\ herrs = [w \in Writers |-> 0]
  /\ md = NoMetadata
  /\ rpc = [r \in Refreshers |-> "idle"]
  /\ rtags = [r \in Refreshers |-> <<>>]
  /\ ridx = [r \in Refreshers |-> 0]
  /\ cmd = [c \in Collectors |-> NoMetadata]
  /\ wpc = [w \in Writers |-> "idle"]
  /\ wvl = [w \in Writers |-> NoValueList]
  /\ wt = [w \in Writers |-> 0]
  /\ ppc = "select"
  /\ pvl = NoValueList
  /\ pnow = 0
  /\ cpc = [c \in Collectors |-> "idle"]
  /\ csnap = [c \in Collectors |-> {}]
  /\ crest = [c \in Collectors |-> {}]
  /\ cnow = [c \in Collectors |-> 0]
  /\ csink = [c \in Collectors |-> <<>>]
  /\ calls = 0
  /\ log = <<>>
  /\ cstart = [c \in Collectors |-> 0]
  /\ clog = [c \in Collectors |-> 0]

\* prometheus.NewDesc(newName(vl, index), ...): the first argument
NewDescName ==
  /\ npc = "newName"
  /\ nname' = newName(nvl, nindex)
  /\ npc' = "newLabels"
  /\ UNCHANGED <<now, valueLists, mu, lastPush, hvars, wvars, pvars, cvars, calls, log,
                 lvars, nvl, nindex, nlabels, evars>>

\* prometheus.NewDesc(..., newLabels(vl)): the last argument
NewDescLabels ==
  /\ npc = "newLabels"
  /\ nlabels' = newLabels(nvl)
  /\ npc' = "done"
  /\ UNCHANGED <<now, valueLists, mu, lastPush, hvars, wvars, pvars, cvars, calls, log,
                 lvars, nvl, nindex, nname, evars>>

NameNext == NewDescName \/ NewDescLabels

NameSpec == NameInit /\ [][NameNext]_vars

\* ------------------------------------------------- Collect: descriptions
\* A scrape of a map that holds one or two value lists.
DescInit ==
  /\ now = 0
  /\ valueLists \in Stores
  /\ mu = NoOne
  /\ lastPush = 0
  /\ hpc = [w \in Writers |-> "idle"]
  /\ hbatch = [w \in Writers |-> <<>>]
  /\ hidx = [w \in Writers |-> 0]
  /\ hstatus = [w \in Writers |-> 0]
  /\ hstart = [w \in Writers |-> 0]
  /\ hbody = [w \in Writers |-> "none"]
  /\ npc = "idle"
  /\ nvl = NoSample
  /\ nindex = 0
  /\ nname = <<>>
  /\ nlabels = << >>
  /\ lpc = "read"
  /\ ldgram = NoDatagram
  /\ lerrs = 0
  /\ cancelled = FALSE
  /\ alive = TRUE
  /\ herrs = [w \in Writers |-> 0]
  /\ md = NoMetadata
  /\ rpc = [r \in Refreshers |-> "idle"]
  /\ rtags = [r \in Refreshers |-> <<>>]
  /\ ridx = [r \in Refreshers |-> 0]
  /\ cmd = [c \in Collectors |-> NoMetadata]
  /\ wpc = [w \in Writers |-> "idle"]
  /\ wvl = [w \in Writers |-> NoValueList]
  /\ wt = [w \in Writers |-> 0]
  /\ ppc = "select"
  /\ pvl = NoValueList
  /\ pnow = 0
  /\ cpc = [c \in Collectors |-> "idle"]
  /\ csnap = [c \in Collectors |-> {}]
  /\ crest = [c \in Collectors |-> {}]
  /\ cnow = [c \in Collectors |-> 0]
  /\ csink = [c \in Collectors |-> <<>>]
  /\ calls = 0
  /\ log = <<>>
  /\ cstart = [c \in Collectors |-> 0]
  /\ clog = [c \in Collectors |-> 0]

\* for _, vl := range valueLists: one iteration, the metrics sent to ch with
\* the descriptions newMetric gave them.
CollectRangeDesc(c) ==
  /\ cpc[c] = "range"
  /\ \E vl \in crest[c] :
       /\ crest' = [crest EXCEPT ![c] = @ \ {vl}]
       /\ csink' = [csink EXCEPT ![c] =
                      IF Expired(vl, cnow[c]) THEN @ ELSE @ \o DescEmissions(vl, 1)]
  /\ UNCHANGED <<now, valueLists, mu, lastPush, hvars, wvars, pvars, cpc, csnap, cnow,
                 calls, log, cstart, clog, lvars, nvars, evars>>

\* One scrape at a time.
DescNext ==
  \/ CollectCall(CollectorSlots[1])
  \/ CollectLastPush(CollectorSlots[1])
  \/ CollectCopy(CollectorSlots[1])
  \/ CollectUnlock(CollectorSlots[1])
  \/ CollectRangeDesc(CollectorSlots[1])
  \/ CollectReturn(CollectorSlots[1])

DescSpec == DescInit /\ [][DescNext]_vars

\* ------------------------------------------------- EC2 variant: behaviour
\* The maps a scrape of the EC2 variant finds: one value list of the cpu plugin.
EC2Stores ==
  { StoreOf({vl}) :
      vl \in { s \in StoredSamples :
                 /\ s.Identifier.Plugin = <<"c","p","u">>
                 /\ s.Identifier.Type = <<"c","p","u">>
                 /\ s.Identifier.TypeInstance = <<>>
                 /\ s.DSNames = <<>> } }

\* main: c := newCollectdCollector(); go refreshMetadata(c).  The clock
\* stands one unit before MaxTime.
EC2Init ==
  /\ now = MaxTime - 1
  /\ valueLists \in EC2Stores
  /\ mu = NoOne
  /\ lastPush = 0
  /\ hpc = [w \in Writers |-> "idle"]
  /\ hbatch = [w \in Writers |-> <<>>]
  /\ hidx = [w \in Writers |-> 0]
  /\ hstatus = [w \in Writers |-> 0]
  /\ hstart = [w \in Writers |-> 0]
  /\ hbody = [w \in Writers |-> "none"]
  /\ npc = "idle"
  /\ nvl = NoSample
  /\ nindex = 0
  /\ nname = <<>>
  /\ nlabels = << >>
  /\ lpc = "read"
  /\ ldgram = NoDatagram
  /\ lerrs = 0
  /\ cancelled = FALSE
  /\ alive = TRUE
  /\ herrs = [w \in Writers |-> 0]
  /\ md = NoMetadata
  /\ rpc = [r \in Refreshers |-> IF r = RefreshSlots[1] THEN "instanceId" ELSE "idle"]
  /\ rtags = [r \in Refreshers |-> <<>>]
  /\ ridx = [r \in Refreshers |-> 0]
  /\ cmd = [c \in Collectors |-> NoMetadata]
  /\ wpc = [w \in Writers |-> "idle"]
  /\ wvl = [w \in Writers |-> NoValueList]
  /\ wt = [w \in Writers |-> 0]
  /\ ppc = "select"
  /\ pvl = NoValueList
  /\ pnow = 0
  /\ cpc = [c \in Collectors |-> "idle"]
  /\ csnap = [c \in Collectors |-> {}]
  /\ crest = [c \in Collectors |-> {}]
  /\ cnow = [c \in Collectors |-> 0]
  /\ csink = [c \in Collectors |-> <<>>]
  /\ calls = 0
  /\ log = <<>>
  /\ cstart = [c \in Collectors |-> 0]
  /\ clog = [c \in Collectors |-> 0]

\* case <-tag_ticker: c.mu.Lock()
TagTickerLock ==
  /\ alive
  /\ ppc = "select"
  /\ \E r \in Refreshers : rpc[r] = "idle"
  /\ mu = NoOne
  /\ mu' = ProcessSamplesId
  /\ ppc' = "tag_go"
  /\ UNCHANGED <<now, valueLists, lastPush, hvars, wvars, pvl, pnow, cvars, calls, log,
                 lvars, nvars, evars>>

\* go refreshMetadata(c)
TagTickerGo ==
  /\ alive
  /\ ppc = "tag_go"
  /\ \E r \in Refreshers :
       /\ rpc[r] = "idle"
       /\ \A i, j \in DOMAIN RefreshSlots :
            (i < j /\ RefreshSlots[j] = r) => rpc[RefreshSlots[i]] # "idle"
       /\ rpc' = [rpc EXCEPT ![r] = "instanceId"]
  /\ ppc' = "tag_unlock"
  /\ UNCHANGED <<now, valueLists, mu, lastPush, hvars, wvars, pvl, pnow, cvars, calls,
                 log, lvars, nvars, md, rtags, ridx, cmd>>

\* c.mu.Unlock() of the tag ticker case
TagTickerUnlock ==
  /\ alive
  /\ ppc = "tag_unlock"
  /\ mu' = NoOne
  /\ ppc' = "select"
  /\ UNCHANGED <<now, valueLists, lastPush, hvars, wvars, pvl, pnow, cvars, calls, log,
                 lvars, nvars, evars>>

\* http.Get(".../instance-id"): return on an error, else
\* c.md.instanceId = string(data)
RefreshInstanceId(r) ==
  /\ alive
  /\ rpc[r] = "instanceId"
  /\ \/ /\ rpc' = [rpc EXCEPT ![r] = "failed"]
        /\ UNCHANGED md
     \/ /\ md' = [md EXCEPT !.instanceId = InstanceId]
        /\ rpc' = [rpc EXCEPT ![r] = "privateIp"]
  /\ UNCHANGED <<now, valueLists, mu, lastPush, hvars, wvars, pvars, cvars, calls, log,
                 lvars, nvars, rtags, ridx, cmd>>

\* http.Get(".../local-ipv4"): return on an error, else
\* c.md.privateIpAddress = string(ip_data)
RefreshPrivateIp(r) ==
  /\ alive
  /\ rpc[r] = "privateIp"
  /\ \/ /\ rpc' = [rpc EXCEPT ![r] = "failed"]
        /\ UNCHANGED md
     \/ /\ md' = [md EXCEPT !.privateIpAddress = PrivateIpAddress]
        /\ rpc' = [rpc EXCEPT ![r] = "describeTags"]
  /\ UNCHANGED <<now, valueLists, mu, lastPush, hvars, wvars, pvars, cvars, calls, log,
                 lvars, nvars, rtags, ridx, cmd>>

\* The availability zone, the session and service.DescribeTags(params):
\* return on an error of any of them; az[0 : len(az)-1] panics when the body
\* of the availability zone is empty; else the range over the tags begins.
RefreshDescribeTags(r) ==
  /\ alive
  /\ rpc[r] = "describeTags"
  /\ \/ /\ rpc' = [rpc EXCEPT ![r] = "failed"]
        /\ UNCHANGED <<rtags, ridx, alive>>
     \/ /\ alive' = FALSE
        /\ UNCHANGED <<rpc, rtags, ridx>>
     \/ /\ \E res \in TagResults : rtags' = [rtags EXCEPT ![r] = res]
        /\ ridx' = [ridx EXCEPT ![r] = 1]
        /\ rpc' = [rpc EXCEPT ![r] = "range"]
        /\ UNCHANGED alive
  /\ UNCHANGED <<now, valueLists, mu, lastPush, hvars, wvars, pvars, cvars, calls, log,
                 lpc, ldgram, lerrs, cancelled, herrs, nvars, md, cmd>>

\* for _, tag := range describeTagsRes.Tags: one iteration
RefreshRange(r) ==
  /\ alive
  /\ rpc[r] = "range"
  /\ ridx[r] <= Len(rtags[r])
  /\ md' = [md EXCEPT !.tags = TakeTag(@, rtags[r][ridx[r]])]
  /\ ridx' = [ridx EXCEPT ![r] = @ + 1]
  /\ UNCHANGED <<now, valueLists, mu, lastPush, hvars, wvars, pvars, cvars, calls, log,
                 lvars, nvars, rpc, rtags, cmd>>

\* refreshMetadata returns when the range over the tags is exhausted.
RefreshReturn(r) ==
  /\ alive
  /\ rpc[r] = "range"
  /\ ridx[r] > Len(rtags[r])
  /\ rpc' = [rpc EXCEPT ![r] = "done"]
  /\ rtags' = [rtags EXCEPT ![r] = <<>>]
  /\ ridx' = [ridx EXCEPT ![r] = 0]
  /\ UNCHANGED <<now, valueLists, mu, lastPush, hvars, wvars, pvars, cvars, calls, log,
                 lvars, nvars, md, cmd>>

\* Collect has a value receiver: the call copies *c, c.md with it (the
\* strings; the tags map is shared with the collector).
EC2CollectCall(c) ==
  /\ alive
  /\ cpc[c] = "idle"
  /\ calls < MaxCalls
  /\ calls' = calls + 1
  /\ cpc' = [cpc EXCEPT ![c] = "lastPush"]
  /\ cstart' = [cstart EXCEPT ![c] = Len(log)]
  /\ cmd' = [cmd EXCEPT ![c] = [md EXCEPT !.tags = << >>]]
  /\ UNCHANGED <<now, valueLists, mu, lastPush, hvars, wvars, pvars,
                 csnap, crest, cnow, csink, log, clog, lvars, nvars, md, rpc, rtags, ridx>>

\* for _, vl := range valueLists: one iteration; newMetric(vl, i, c.md) reads
\* the shared tags map and the strings of the copy.
EC2CollectRange(c) ==
  /\ alive
  /\ cpc[c] = "range"
  /\ \E vl \in crest[c] :
       /\ crest' = [crest EXCEPT ![c] = @ \ {vl}]
       /\ csink' = [csink EXCEPT ![c] =
                      IF Expired(vl, cnow[c]) THEN @
                      ELSE @ \o EC2Emissions(vl, 1, [cmd[c] EXCEPT !.tags = md.tags])]
  /\ UNCHANGED <<now, valueLists, mu, lastPush, hvars, wvars, pvars, cpc, csnap, cnow,
                 calls, log, cstart, clog, lvars, nvars, evars>>

\* Collect of the EC2 variant returns.
EC2CollectReturn(c) ==
  /\ alive
  /\ cpc[c] = "range"
  /\ crest[c] = {}
  /\ cpc' = [cpc EXCEPT ![c] = "idle"]
  /\ csnap' = [csnap EXCEPT ![c] = {}]
  /\ cnow' = [cnow EXCEPT ![c] = 0]
  /\ csink' = [csink EXCEPT ![c] = <<>>]
  /\ cstart' = [cstart EXCEPT ![c] = 0]
  /\ clog' = [clog EXCEPT ![c] = 0]
  /\ cmd' = [cmd EXCEPT ![c] = NoMetadata]
  /\ UNCHANGED <<now, valueLists, mu, lastPush, hvars, wvars, pvars, crest, calls, log,
                 lvars, nvars, md, rpc, rtags, ridx>>

\* The goroutines about to write c.md.tags, and the scrapes about to read it.
TagWriters ==
  { r \in Refreshers :
      /\ rpc[r] = "range" /\ ridx[r] <= Len(rtags[r])
      /\ rtags[r][ridx[r]].Key \in expectedTags }
TagReaders ==
  { c \in Collectors :
      cpc[c] = "range" /\ \E vl \in crest[c] : ~ Expired(vl, cnow[c]) }

\* The runtime finds a map written while it is read or written by another
\* goroutine: "fatal error: concurrent map read and map write" (or "writes").
\* It need not find it: the other outcomes are the steps above in either order.
MapFault ==
  /\ alive
  /\ \E r \in TagWriters : TagReaders # {} \/ TagWriters # {r}
  /\ alive' = FALSE
  /\ UNCHANGED <<now, valueLists, mu, lastPush, hvars, wvars, pvars, cvars, calls, log,
                 lpc, ldgram, lerrs, cancelled, herrs, nvars, evars>>

EC2Next ==
  \/ TagTickerLock
  \/ TagTickerGo
  \/ TagTickerUnlock
  \/ \E r \in Refreshers : RefreshInstanceId(r)
  \/ \E r \in Refreshers : RefreshPrivateIp(r)
  \/ \E r \in Refreshers : RefreshDescribeTags(r)
  \/ \E r \in Refreshers : RefreshRange(r)
  \/ \E r \in Refreshers : RefreshReturn(r)
  \/ EC2CollectCall(CollectorSlots[1])
  \/ (alive /\ CollectLastPush(CollectorSlots[1]))
  \/ (alive /\ CollectCopy(CollectorSlots[1]))
  \/ (alive /\ CollectUnlock(CollectorSlots[1]))
  \/ EC2CollectRange(CollectorSlots[1])
  \/ EC2CollectReturn(CollectorSlots[1])
  \/ MapFault

EC2Spec == EC2Init /\ [][EC2Next]_vars

\* ----------------------------------------------------------- properties
\* The identifier string of a value list, the key it is stored under.
Key(vl) == IdentifierString(vl.Identifier)
Keys == { IdentifierString(id) : id \in Identifiers }

\* The validity deadline of a sample: its own timestamp plus twice its interval.
Deadline(vl) == vl.Time + 2 * vl.Interval

\* The index in the history L of the last sample received for key k, or 0.
LastPut(L, k) ==
  LET S == { i \in DOMAIN L : L[i].op = "put" /\ Key(L[i].vl) = k } IN
  IF S = {} THEN 0 ELSE CHOOSE i \in S : \A j \in S : j <= i

\* A sweep after the last sample for k in L found that sample expired.
SweptAfter(L, k) ==
  \E j \in DOMAIN L :
    /\ j > LastPut(L, k)
    /\ L[j].op = "sweep"
    /\ Deadline(L[LastPut(L, k)].vl) < L[j].at

\* The entries the history L leaves in the store.
LiveKeys(L) == { k \in Keys : LastPut(L, k) > 0 /\ ~ SweptAfter(L, k) }
LiveEntries(L) == { L[LastPut(L, k)].vl : k \in LiveKeys(L) }

\* The entries of its copy a Collect has been through, and the entries it has
\* emitted a metric for.
Processed(c) == csnap[c] \ crest[c]
EmittedFrom(c, vl) == { i \in DOMAIN csink[c] : csink[c][i].vl = vl }
EmittedAll(c, vl) ==
  \A i \in DOMAIN vl.Values :
    vl.Values[i].kind \in {"Gauge", "Derive", "Counter"} =>
      \E j \in DOMAIN csink[c] : csink[c][j].vl = vl /\ csink[c][j].index = i

SweptBefore(c, n, k) ==
  \E j \in (n + 1)..clog[c] :
    /\ log[j].op = "sweep"
    /\ Deadline(log[LastPut(SubSeq(log, 1, j), k)].vl) < log[j].at
Reflects(c, n) ==
  LET k == Key(log[n].vl) IN
  \/ \E m \in n..Len(log) :
       log[m].op = "put" /\ Key(log[m].vl) = k /\ log[m].vl \in csnap[c]
  \/ SweptBefore(c, n, k)

\* C2 as claimed: the snapshot of a Collect reflects every Write that returned
\* before the Collect was called.
C2_SnapshotReflectsReturnedWrites ==
  \A c \in Collectors :
    cpc[c] \in {"unlock", "range"} =>
      \A n \in 1..cstart[c] : log[n].op = "put" => Reflects(c, n)

\* C2 as amended: the snapshot of a Collect reflects every Write whose sample
\* processSamples had stored in the map before the Collect copied it.
C2_SnapshotReflectsStoredWrites ==
  \A c \in Collectors :
    cpc[c] \in {"unlock", "range"} =>
      \A n \in 1..clog[c] : log[n].op = "put" => Reflects(c, n)

\* A Collect has copied a map in which a second sample for a key had replaced
\* the first, and another key was present too.
C2_Witness ==
  \E c \in Collectors :
    /\ cpc[c] = "unlock"
    /\ \E n, m \in 1..clog[c] :
         /\ n < m
         /\ log[n].op = "put" /\ log[m].op = "put"
         /\ Key(log[n].vl) = Key(log[m].vl)
         /\ log[n].vl # log[m].vl
         /\ log[m].vl \in csnap[c]
         /\ log[n].vl \notin csnap[c]

\* C3 as claimed: an entry is exported exactly when the now of the Collect is
\* not after the time the sample arrived (the time Write read) plus twice its
\* interval.
C3_DeadlineFromArrival ==
  \A c \in Collectors :
    cpc[c] = "range" =>
      \A vl \in Processed(c) :
        LET n == LastPut(SubSeq(log, 1, clog[c]), Key(vl)) IN
        (EmittedFrom(c, vl) # {}) <=> (cnow[c] <= log[n].at + 2 * vl.Interval)

\* C3 as amended: an entry is exported exactly when the now of the Collect is
\* not after the timestamp the sample carries plus twice its interval,
\* whenever the sample arrived: with timestamp T and interval I it is exported
\* at T + 2I - 1 and at T + 2I and not at T + 2I + 1.  The entries a sweep
\* leaves have the same deadline at or after the now of the sweep.
C3_DeadlineFromTimestamp ==
  /\ ppc = "gc_unlock" =>
       \A k \in DOMAIN valueLists :
         pnow <= valueLists[k].Time + 2 * valueLists[k].Interval
  /\ \A c \in Collectors :
    cpc[c] = "range" =>
      \A vl \in Processed(c) :
        LET n == LastPut(SubSeq(log, 1, clog[c]), Key(vl)) IN
        /\ log[n].vl = vl
        /\ cnow[c] = vl.Time + 2 * vl.Interval - 1 => EmittedFrom(c, vl) # {}
        /\ cnow[c] = vl.Time + 2 * vl.Interval + 1 => EmittedFrom(c, vl) = {}
        /\ (EmittedFrom(c, vl) # {}) <=> (cnow[c] <= vl.Time + 2 * vl.Interval)

\* A sample with timestamp T and interval 1 that arrived after T is not
\* exported by a Collect at T + 3, which is within twice the interval of its
\* arrival.
C3_Witness ==
  \E c \in Collectors :
    /\ cpc[c] = "range"
    /\ \E vl \in Processed(c) :
         LET n == LastPut(SubSeq(log, 1, clog[c]), Key(vl)) IN
         /\ vl.Interval = 1
         /\ log[n].at > vl.Time
         /\ cnow[c] = vl.Time + 3
         /\ cnow[c] <= log[n].at + 2 * vl.Interval
         /\ EmittedFrom(c, vl) = {}

\* C4: no identity has two entries in the store (every entry is filed under
\* the identifier string of its own identity), and once the samples received
\* for an identity have all been applied and no sweep has removed the entry,
\* the store holds for it the sample applied last.
C4_OneEntryPerIdentity ==
  /\ \A k \in DOMAIN valueLists : Key(valueLists[k]) = k
  /\ \A k1, k2 \in DOMAIN valueLists :
       valueLists[k1].Identifier = valueLists[k2].Identifier => k1 = k2
  /\ ppc # "lock" =>
       \A k \in Keys :
         (LastPut(log, k) > 0 /\ ~ SweptAfter(log, k)) =>
           /\ k \in DOMAIN valueLists
           /\ valueLists[k] = log[LastPut(log, k)].vl

\* Three different samples of one identity have been applied, and the store
\* holds the third.
C4_Witness ==
  /\ ppc = "select"
  /\ Len(log) = 3
  /\ \A i \in 1..3 : log[i].op = "put" /\ Key(log[i].vl) = Key(log[1].vl)
  /\ log[1].vl # log[3].vl /\ log[2].vl # log[3].vl /\ log[1].vl # log[2].vl
  /\ DOMAIN valueLists = {Key(log[3].vl)}
  /\ valueLists[Key(log[3].vl)] = log[3].vl

\* C5: every Write that has been called returns, the sample it handed over
\* is stored, an entry appears or changes in the map only by the store of the
\* sample received last, and when nothing received is pending each key holds
\* the last sample received for it unless a sweep removed it (so a key
\* written once holds exactly that sample).
C5_NoWriteLost ==
  /\ \A w \in Writers : (wpc[w] # "idle") ~> (wpc[w] = "idle")
  /\ (ppc = "lock") ~> (ppc = "unlock" /\ valueLists[Key(pvl)] = pvl)
  /\ [][ \A k \in DOMAIN valueLists' :
            (k \notin DOMAIN valueLists \/ valueLists'[k] # valueLists[k]) =>
              /\ ppc = "lock" /\ ppc' = "unlock"
              /\ log[Len(log)].op = "put"
              /\ valueLists'[k] = log[Len(log)].vl ]_vars
  /\ [](ppc # "lock" =>
         \A k \in Keys :
           /\ k \in DOMAIN valueLists =>
                \E n \in DOMAIN log : log[n].op = "put" /\ log[n].vl = valueLists[k]
           /\ (LastPut(log, k) > 0 /\ ~ SweptAfter(log, k)) =>
                (k \in DOMAIN valueLists /\ valueLists[k] = log[LastPut(log, k)].vl))

\* Two producers were inside Write at once (the second slot is taken only
\* while the first is busy): the first has returned and its sample is in the
\* map, the second still waits to hand over its sample.
C5_Witness ==
  /\ ppc = "select"
  /\ wpc[WriterSlots[1]] = "idle" /\ wpc[WriterSlots[2]] = "send"
  /\ Len(log) = 1 /\ log[1].op = "put"
  /\ valueLists[Key(log[1].vl)] = log[1].vl

\* The goroutines inside a section that reads or writes the map.
Holders ==
  { c \in Collectors : cpc[c] = "unlock" }
    \cup (IF ppc \in {"unlock", "gc_unlock"} THEN {ProcessSamplesId} ELSE {})

\* C6: at most one goroutine is inside a section that accesses the map, and
\* the mutex is held by exactly that goroutine; every step that stores into,
\* sweeps or copies the map is taken by a goroutine that found the mutex free
\* and holds it afterwards, and the map changes in no other step.
C6_MutualExclusion ==
  /\ [](/\ Cardinality(Holders) <= 1
        /\ \A p \in Holders : mu = p
        /\ Holders = {} => mu = NoOne)
  /\ [][ /\ ((ppc = "lock" /\ ppc' = "unlock") \/ (ppc = "gc_lock" /\ ppc' = "gc_unlock"))
             => (mu = NoOne /\ mu' = ProcessSamplesId)
         /\ \A c \in Collectors :
              (cpc[c] = "lock" /\ cpc'[c] = "unlock") => (mu = NoOne /\ mu' = c)
         /\ valueLists' # valueLists => mu' = ProcessSamplesId ]_vars

\* One Collect is copying while the other Collect and processSamples, which
\* has received a sample, both wait for the mutex.
C6_Witness ==
  /\ ppc = "lock"
  /\ \E c, d \in Collectors : cpc[c] = "unlock" /\ cpc[d] = "lock" /\ mu = c

\* C7: a Collect holds the mutex only inside its copy section; while it waits
\* on its sink, before the copy or after it, a Write that is waiting to hand
\* over its sample returns and a sample processSamples has received is stored,
\* however long the sink stalls.
C7_CollectHoldsMutexOnlyToCopy ==
  /\ [](\A c \in Collectors : cpc[c] # "unlock" => mu # c)
  /\ \A c \in Collectors : \A w \in Writers :
       (cpc[c] \in {"lastPush", "range"} /\ wpc[w] = "send") ~> (wpc[w] = "idle")
  /\ \A c \in Collectors :
       (cpc[c] \in {"lastPush", "range"} /\ ppc = "lock") ~> (ppc = "select")

\* A Collect is still in its range loop, with entries left to emit, and a
\* sample received after the Collect was called has been stored in the map
\* after the copy was taken.
C7_Witness ==
  \E c \in Collectors :
    /\ cpc[c] = "range" /\ crest[c] # {}
    /\ ppc = "select"
    /\ Len(log) > cstart[c] /\ Len(log) > clog[c]
    /\ log[Len(log)].op = "put"
    /\ valueLists[Key(log[Len(log)].vl)] = log[Len(log)].vl

\* A sweep pass is in progress: from the ticker event to the release of the
\* mutex.
SweepInProgress == ppc \in {"gc_lock", "gc_unlock"}

\* C8 as claimed: while a sweep pass is in progress a Write waiting to hand
\* over its sample can complete and a Collect waiting to copy can copy.
C8_SweepNeverBlocks ==
  SweepInProgress =>
    /\ \A w \in Writers : wpc[w] = "send" => ENABLED WriteSend(w)
    /\ \A c \in Collectors : cpc[c] = "lock" => ENABLED CollectCopy(c)

\* C8 as amended: while a sweep pass is in progress no Write completes, and
\* while the sweep holds the mutex no Collect copies; the pass ends, and the
\* Writes and Collects that waited go on.
C8_SweepBlocksOnlyDuringPass ==
  /\ [](SweepInProgress => \A w \in Writers : ~ ENABLED WriteSend(w))
  /\ [](ppc = "gc_unlock" => \A c \in Collectors : ~ ENABLED CollectCopy(c))
  /\ SweepInProgress ~> (ppc = "select")
  /\ \A w \in Writers : (SweepInProgress /\ wpc[w] = "send") ~> (wpc[w] = "idle")
  /\ \A c \in Collectors : (SweepInProgress /\ cpc[c] = "lock") ~> (cpc[c] = "unlock")

\* The sweep holds the mutex while a Write waits to hand over its sample and
\* a Collect waits to copy.
C8_Witness ==
  /\ ppc = "gc_unlock"
  /\ \E w \in Writers : wpc[w] = "send"
  /\ \E c \in Collectors : cpc[c] = "lock"

\* C9: the copy a Collect works on is the content of the map at the instant
\* of the copy (the entries the history up to that instant leaves, each a
\* whole sample as it was received), and what the Collect emits after the
\* lastPush gauge is the values of entries of that copy, whatever is stored
\* or swept afterwards.
C9_SnapshotIsIndependentCopy ==
  \A c \in Collectors :
    cpc[c] \in {"unlock", "range"} =>
      /\ csnap[c] = LiveEntries(SubSeq(log, 1, clog[c]))
      /\ crest[c] \subseteq csnap[c]
      /\ \A i \in 2..Len(csink[c]) :
           LET m == csink[c][i] IN
           /\ m.vl \in csnap[c]
           /\ m.index \in DOMAIN m.vl.Values
           /\ m.value = m.vl.Values[m.index].v

\* A Collect has emitted the values of an entry that was replaced or swept
\* in the map after the copy was taken.
C9_Witness ==
  \E c \in Collectors :
    /\ cpc[c] = "range" /\ crest[c] = {}
    /\ Len(AppliedLog) > clog[c]
    /\ \E vl \in csnap[c] :
         /\ EmittedFrom(c, vl) # {}
         /\ (Key(vl) \notin DOMAIN valueLists \/ valueLists[Key(vl)] # vl)

\* C10: a sweep with time pnow removes exactly the entries whose deadline is
\* before pnow and leaves every other entry, those with deadline equal to
\* pnow included, under the same key with the same sample.
C10_SweepFrame ==
  [][ (ppc = "gc_lock" /\ ppc' = "gc_unlock") =>
        /\ DOMAIN valueLists' =
             { k \in DOMAIN valueLists : ~ (Deadline(valueLists[k]) < pnow) }
        /\ \A k \in DOMAIN valueLists' : valueLists'[k] = valueLists[k] ]_vars

\* A sweep has removed one entry and kept one whose deadline equals its now.
C10_Witness ==
  /\ ppc = "gc_unlock"
  /\ \E k \in DOMAIN valueLists : Deadline(valueLists[k]) = pnow
  /\ \E k \in Keys : k \notin DOMAIN valueLists /\ LastPut(log, k) > 0

\* The entries of a map, the last sample the history L holds for each key
\* (swept or not), the entries of a set that a scrape at time t exports, and
\* the entries a Collect has emitted a metric for.
Entries(m) == { m[k] : k \in DOMAIN m }
Unswept(L) == { L[LastPut(L, k)].vl : k \in { x \in Keys : LastPut(L, x) > 0 } }
Exported(S, t) == { vl \in S : Deadline(vl) >= t }
EmittedEntries(c) == { csink[c][i].vl : i \in 2..Len(csink[c]) }

\* C11: a sweep pass changes, for no time from its own now on, the set of
\* entries of the map that a scrape at that time exports; and what a Collect
\* has exported when it is through its copy is what it would have exported had
\* no sweep ever run: the last sample received for each key, if its deadline
\* is not before the now of the Collect.
C11_SweepNeverChangesExport ==
  /\ [][ (ppc = "gc_lock" /\ ppc' = "gc_unlock") =>
           \A t \in pnow..MaxTime :
             Exported(Entries(valueLists'), t) = Exported(Entries(valueLists), t) ]_vars
  /\ [](\A c \in Collectors :
          (cpc[c] = "range" /\ crest[c] = {}) =>
            EmittedEntries(c) = Exported(Unswept(SubSeq(log, 1, clog[c])), cnow[c]))

\* A sweep deleted an entry before a Collect copied the map, and the Collect
\* is through its copy.
C11_Witness ==
  \E c \in Collectors :
    /\ cpc[c] = "range" /\ crest[c] = {}
    /\ \E j \in 1..clog[c] : log[j].op = "sweep"
    /\ Unswept(SubSeq(log, 1, clog[c])) # {}

\* C12: a Collect reads the clock once, when it has released the mutex, and
\* keeps that reading to the end of its range loop; every entry of the copy
\* is exported or skipped by its deadline against that reading, however far
\* the clock has moved on when the entry's turn comes.
C12_SingleNowPerCollect ==
  /\ [][ \A c \in Collectors :
           /\ (cpc[c] = "unlock" /\ cpc'[c] = "range") => cnow'[c] = now'
           /\ (cpc[c] = "range" /\ cpc'[c] = "range") => cnow'[c] = cnow[c]
           /\ (cpc[c] = "range" /\ crest'[c] # crest[c]) =>
                \E vl \in crest[c] :
                  /\ crest'[c] = crest[c] \ {vl}
                  /\ (csink'[c] # csink[c]) <=> (Deadline(vl) >= cnow[c]) ]_vars
  /\ [](\A c \in Collectors :
          cpc[c] = "range" =>
            \A vl \in Processed(c) :
              (EmittedFrom(c, vl) # {}) <=> (Deadline(vl) >= cnow[c]))

\* A Collect has exported an entry whose deadline was not before its reading
\* of the clock, and a Write that started during the Collect has read a time
\* past that deadline.
C12_Witness ==
  \E c \in Collectors :
    /\ cpc[c] = "range" /\ crest[c] = {}
    /\ wpc[WriterSlots[1]] = "set"
    /\ \E vl \in csnap[c] :
         /\ cnow[c] <= Deadline(vl) /\ Deadline(vl) < now
         /\ EmittedFrom(c, vl) # {}

Busy ==
  \/ \E w \in Writers : wpc[w] # "idle"
  \/ ppc # "select"
  \/ \E c \in Collectors : cpc[c] # "idle"
Progress ==
  \/ \E w \in Writers : WriteSet(w) \/ WriteSend(w)
  \/ Store \/ Unlock \/ Sweep
  \/ \E c \in Collectors :
       \/ CollectLastPush(c) \/ CollectCopy(c) \/ CollectUnlock(c)
       \/ CollectRange(c) \/ CollectReturn(c)

\* C14: with a sink that accepts every emission, every Collect that has been
\* called returns, whatever Writes, sweeps and other Collects run beside it,
\* and in no state are the goroutines that are inside an operation all unable
\* to step.
C14_CollectReturns ==
  /\ \A c \in Collectors : (cpc[c] # "idle") ~> (cpc[c] = "idle")
  /\ [](Busy => ENABLED Progress)

\* A Collect and a Write both wait for processSamples, which holds the mutex
\* to store a sample.
C14_Witness ==
  /\ ppc = "unlock" /\ mu = ProcessSamplesId
  /\ \E w \in Writers : wpc[w] = "send"
  /\ \E c \in Collectors : cpc[c] = "lock"

\* An emission of the lastPush gauge: a gauge that belongs to no value list.
IsLastPush(m) == m.vl = NoValueList /\ m.valueType = "GaugeValue"

\* C15: a Collect has sent nothing, and does not hold the mutex, until it
\* sends the lastPush gauge; from then on the gauge is the first item of its
\* sink and the only one of its kind, whether the map is empty, the copy is
\* empty or every entry of the copy is expired.
C15_LastPushFirst ==
  \A c \in Collectors :
    /\ cpc[c] \in {"idle", "lastPush"} => (csink[c] = <<>> /\ mu # c)
    /\ cpc[c] \in {"lock", "unlock", "range"} =>
         /\ Len(csink[c]) >= 1
         /\ IsLastPush(csink[c][1])
         /\ \A i \in 2..Len(csink[c]) : ~ IsLastPush(csink[c][i])

\* A Collect is through a copy whose only entry is expired: the lastPush
\* gauge, with the time of the one push, is all it has sent.
C15_Witness ==
  \E c \in Collectors :
    /\ cpc[c] = "range" /\ crest[c] = {}
    /\ \E vl \in csnap[c] : csnap[c] = {vl} /\ Deadline(vl) < cnow[c]
    /\ Len(csink[c]) = 1
    /\ csink[c][1].value = lastPush /\ lastPush > 0

\* The kinds of value the type switch of newMetric has a case for, and the
\* positions in the sink of Collect c of the metrics of value i of entry vl.
KnownKinds == {"Gauge", "Derive", "Counter"}
EmittedAt(c, vl, i) ==
  { j \in DOMAIN csink[c] : csink[c][j].vl = vl /\ csink[c][j].index = i }

Owed(c) ==
  UNION { { <<vl, i>> : i \in { x \in DOMAIN vl.Values : vl.Values[x].kind \in KnownKinds } } :
          vl \in { y \in csnap[c] : Deadline(y) >= cnow[c] } }

Rejected(w) == hbody[w] \in {"unreadable", "malformed"}

\* C18: a push whose body cannot be read is answered with status 500 and one
\* whose body json.Unmarshal rejects with status 400; such a request never
\* enters Write, the step that rejects it changes neither the map, nor the
\* lastPush gauge, nor what processSamples has received, and the one step the
\* request takes afterwards is its return, which changes none of them either.
\* A push that decodes is given no error status.
C18_RejectedPushIngestsNothing ==
  /\ [](\A w \in Writers :
          /\ hbody[w] = "unreadable" => hstatus[w] = 500
          /\ hbody[w] = "malformed" => hstatus[w] = 400
          /\ hbody[w] = "array" => hstatus[w] = 0
          /\ Rejected(w) =>
               (hpc[w] = "return" /\ wpc[w] = "idle" /\ hidx[w] = 0 /\ hbatch[w] = <<>>))
  /\ [][ \A w \in Writers :
           (Rejected(w)' /\ hbody'[w] # hbody[w]) \/ (Rejected(w) /\ hpc'[w] # hpc[w]) =>
             /\ valueLists' = valueLists
             /\ lastPush' = lastPush
             /\ log' = log /\ pvl' = pvl /\ wvl' = wvl
             /\ Rejected(w) => hpc'[w] = "idle" ]_vars

\* The map holds an entry of an earlier push, and two pushes have been
\* rejected since, one with status 400 and one with status 500.
C18_Witness ==
  /\ valueLists # << >> /\ lastPush > 0
  /\ Len(log) = 1
  /\ \E w, x \in Writers :
       /\ hpc[w] = "return" /\ hstatus[w] = 400
       /\ hpc[x] = "return" /\ hstatus[x] = 500

\* C19 as claimed: the handler of a decoded push does not stop while elements
\* of the slice are left: between two Writes, with elements left, its range
\* loop is still running, whatever happened to the elements before.
C19_EveryElementAttempted ==
  \A w \in Writers :
    (hbody[w] = "array" /\ wpc[w] = "idle" /\ hidx[w] < Len(hbatch[w])) =>
      hpc[w] = "range"

\* The value lists of the elements of a push for key k whose Write has
\* returned, and the value lists processSamples has received for key k since
\* the push arrived, both in order.
Returned(w) == IF wpc[w] = "idle" THEN hidx[w] ELSE hidx[w] - 1
Mine(w, k) ==
  LET IsMine(e) == ~ e.isNil /\ Key(e.vl) = k
      sel == SelectSeq(SubSeq(hbatch[w], 1, Returned(w)), IsMine)
  IN [i \in DOMAIN sel |-> sel[i].vl]
Theirs(w, k) ==
  LET IsPut(e) == e.op = "put" /\ Key(e.vl) = k
      sel == SelectSeq(SubSeq(log, hstart[w] + 1, Len(log)), IsPut)
  IN [i \in DOMAIN sel |-> sel[i].vl]

\* C20: the range loop passes an element to Write only when the Writes of
\* the elements before it have returned and processSamples has received their
\* value lists; so when nobody else has written key k since the push arrived,
\* the value lists received for k are those of the push in the order of the
\* slice, and once the last of them is stored (and no sweep has deleted it)
\* the map holds it.
C20_BatchOrder ==
  /\ [][ \A w \in Writers :
           hidx'[w] = hidx[w] + 1 =>
             /\ wpc[w] = "idle"
             /\ \A k \in Keys : Len(Theirs(w, k)) >= Len(Mine(w, k)) ]_vars
  /\ [](\A w \in Writers : \A k \in Keys :
          (hpc[w] = "range" /\ Len(Theirs(w, k)) = Len(Mine(w, k))) =>
            /\ Theirs(w, k) = Mine(w, k)
            /\ (/\ Mine(w, k) # <<>>
                /\ ppc = "lock" => Key(pvl) # k
                /\ ~ SweptAfter(log, k))
                 => (k \in DOMAIN valueLists
                     /\ valueLists[k] = Mine(w, k)[Len(Mine(w, k))]))

\* The Writes of a push with two different samples of one key have returned
\* while another push wrote the other key, and the map holds the second
\* sample.
C20_Witness ==
  \E w \in Writers :
    /\ hpc[w] = "range" /\ wpc[w] = "idle" /\ hidx[w] = 2
    /\ ~ hbatch[w][1].isNil /\ ~ hbatch[w][2].isNil
    /\ Key(hbatch[w][1].vl) = Key(hbatch[w][2].vl)
    /\ hbatch[w][1].vl # hbatch[w][2].vl
    /\ ppc = "select"
    /\ Len(log) = 3
    /\ \E i \in 1..3 : log[i].op = "put" /\ Key(log[i].vl) # Key(hbatch[w][1].vl)
    /\ valueLists[Key(hbatch[w][2].vl)] = hbatch[w][2].vl

\* The lastPush gauge is not behind the Write of any sample that has reached
\* the map.
GaugeCoversStored ==
  \A i \in DOMAIN AppliedLog : AppliedLog[i].op = "put" => lastPush >= AppliedLog[i].at

\* A step that changes the lastPush gauge is the lastPush.Set of a Write whose
\* argument is a sample.
GaugeSetBySample ==
  lastPush' # lastPush =>
    \E w \in Writers : wpc[w] = "set" /\ wpc'[w] = "send" /\ wvl[w] # NoValueList

\* A push that brings nothing to store: its body was rejected, or it decoded
\* to an empty slice.
NothingToStore(w) == Rejected(w) \/ (hbody[w] = "array" /\ hbatch[w] = <<>>)

\* C21 as claimed: once a sample is stored the lastPush gauge is at least the
\* time of its Write; the gauge is changed only by a Write that has a sample
\* to store; and no step of a push that was rejected or is empty changes it.
C21_LastPushTracksStores ==
  /\ []GaugeCoversStored
  /\ [][GaugeSetBySample]_vars
  /\ [][ \A w \in Writers :
           (hpc'[w] # hpc[w] /\ (NothingToStore(w) \/ NothingToStore(w)'))
             => lastPush' = lastPush ]_vars

\* C22 as claimed: every entry of the map has an interval above zero.
C22_StoredIntervalPositive ==
  \A k \in DOMAIN valueLists : valueLists[k].Interval > 0

\* The server's goroutines are over: ListenAndWrite has returned and no
\* dispatch is running.
ListenerStopped ==
  /\ lpc = "exited"
  /\ \A w \in Writers : hpc[w] = "idle" /\ wpc[w] = "idle"

\* C23 as claimed: once the context is cancelled, ListenAndWrite and the
\* dispatch goroutines eventually are over while the process still runs.
C23_GracefulShutdown == cancelled ~> (ListenerStopped /\ alive)

\* C24: the step ListenAndWrite takes on a datagram Parse rejects logs one
\* error, starts no dispatch, passes nothing to Write, leaves the map, the
\* lastPush gauge and what processSamples has received as they were, and goes
\* back to the Read of the next datagram with the process running; and an
\* error is logged by such a step only.
C24_MalformedDatagramRejected ==
  /\ [][ (lpc = "parse" /\ lpc' # lpc /\ ldgram.malformed) =>
           /\ lerrs' = lerrs + 1
           /\ hpc' = hpc /\ hbatch' = hbatch /\ hidx' = hidx
           /\ wpc' = wpc /\ wvl' = wvl
           /\ valueLists' = valueLists /\ lastPush' = lastPush
           /\ log' = log /\ pvl' = pvl
           /\ lpc' = "read" /\ alive' ]_vars
  /\ [][ lerrs' # lerrs => (lpc = "parse" /\ lpc' # lpc /\ ldgram.malformed) ]_vars

\* A datagram with a value list was rejected, and the value list of a
\* datagram read after it is in the map.
C24_Witness ==
  /\ lerrs = 1
  /\ valueLists # << >>
  /\ \E w \in Writers :
       /\ hbody[w] = "datagram" /\ herrs[w] = 1
       /\ hidx[w] = 1 /\ wpc[w] = "idle"
       /\ Len(log) = 1 /\ ppc = "select"

\* newName has returned for the value list and index of the state.
Named == npc \in {"newLabels", "done"}

\* strings.HasPrefix and strings.HasSuffix
HasPrefix(s, prefix) == Len(s) >= Len(prefix) /\ SubSeq(s, 1, Len(prefix)) = prefix
HasSuffix(s, suffix) ==
  Len(s) >= Len(suffix) /\ SubSeq(s, Len(s) - Len(suffix) + 1, Len(s)) = suffix

\* The string with every character outside [A-Za-z0-9_:] replaced by "_".
Sanitized(s) == [i \in 1..Len(s) |-> IF s[i] \in NameChars THEN s[i] ELSE "_"]

\* The parts of a name: the base with the plugin left out when it is the
\* type, the part for the data source and the part for the kind of the value.
BaseOmitEqual(vl) ==
  IF vl.Identifier.Plugin = vl.Identifier.Type
    THEN <<"c","o","l","l","e","c","t","d","_">> \o vl.Identifier.Type
    ELSE <<"c","o","l","l","e","c","t","d","_">> \o vl.Identifier.Plugin \o <<"_">> \o vl.Identifier.Type
DsPart(vl, index) ==
  IF DSName(vl, index) = <<"v","a","l","u","e">> THEN <<>>
  ELSE <<"_">> \o DSName(vl, index)
TotalPart(vl, index) ==
  IF vl.Values[index].kind \in {"Counter", "Derive"} THEN <<"_","t","o","t","a","l">> ELSE <<>>

\* C25 as claimed: the plugin is left out of the base when it equals the type
\* or is a prefix of the type, and for plugin dns, type dns_qtype the base is
\* collectd_dns_qtype.
C25_PluginOmittedWhenPrefix ==
  Named =>
    LET id == nvl.Identifier
        base == IF HasPrefix(id.Type, id.Plugin)
                  THEN <<"c","o","l","l","e","c","t","d","_">> \o id.Type
                  ELSE <<"c","o","l","l","e","c","t","d","_">> \o id.Plugin \o <<"_">> \o id.Type
    IN
    /\ nname = Sanitized(base) \o Sanitized(DsPart(nvl, nindex) \o TotalPart(nvl, nindex))
    /\ (nvl.Identifier.Plugin = <<"d","n","s">> /\ nvl.Identifier.Type = <<"d","n","s","_","q","t","y","p","e">>) =>
         /\ HasPrefix(nname, <<"c","o","l","l","e","c","t","d","_","d","n","s","_","q","t","y","p","e">>)
         /\ ~ HasPrefix(nname, <<"c","o","l","l","e","c","t","d","_","d","n","s","_","d","n","s","_","q","t","y","p","e">>)

\* C25, amended: the plugin is left out of the base when it equals the type,
\* and only then: the name is the base, sanitized, followed by the parts for
\* the data source and the kind, and for plugin dns, type dns_qtype the base
\* is collectd_dns_dns_qtype.
C25_PluginOmittedWhenEqual ==
  Named =>
    /\ nname = Sanitized(BaseOmitEqual(nvl))
                 \o Sanitized(DsPart(nvl, nindex) \o TotalPart(nvl, nindex))
    /\ nvl.Identifier.Plugin = nvl.Identifier.Type =>
         HasPrefix(nname, Sanitized(<<"c","o","l","l","e","c","t","d","_">> \o nvl.Identifier.Type))
    /\ (nvl.Identifier.Plugin = <<"d","n","s">> /\ nvl.Identifier.Type = <<"d","n","s","_","q","t","y","p","e">>) =>
         HasPrefix(nname, <<"c","o","l","l","e","c","t","d","_","d","n","s","_","d","n","s","_","q","t","y","p","e">>)

\* newName has returned for plugin dns and type dns_qtype, a type the plugin
\* is a prefix of.
C25_Witness ==
  /\ Named
  /\ nvl.Identifier.Plugin = <<"d","n","s">> /\ nvl.Identifier.Type = <<"d","n","s","_","q","t","y","p","e">>
  /\ HasPrefix(nvl.Identifier.Type, nvl.Identifier.Plugin)
  /\ nvl.DSNames = <<<<"u","s","e","d">>, <<"f","r","e","e">>>> /\ nindex = 2
  /\ nname = <<"c","o","l","l","e","c","t","d","_","d","n","s","_","d","n","s","_","q","t","y","p","e","_","f","r","e","e">>

\* C26 as claimed: when the plugin differs from the type the name starts with
\* "collectd_" + plugin + "_" + type, as they are.
C26_PluginKeptLiteral ==
  (Named /\ nvl.Identifier.Plugin # nvl.Identifier.Type) =>
    HasPrefix(nname, <<"c","o","l","l","e","c","t","d","_">> \o nvl.Identifier.Plugin \o <<"_">> \o nvl.Identifier.Type)

\* C26, amended: when the plugin differs from the type, also when it is a
\* prefix of the type, the name starts with "collectd_" + plugin + "_" + type
\* with the characters outside [A-Za-z0-9_:] replaced by "_"; dns, dns_qtype
\* with a derive named value gives collectd_dns_dns_qtype_total, and cpu,
\* percent with a gauge named value gives collectd_cpu_percent.
C26_PluginKept ==
  (Named /\ nvl.Identifier.Plugin # nvl.Identifier.Type) =>
    /\ HasPrefix(nname, Sanitized(<<"c","o","l","l","e","c","t","d","_">> \o nvl.Identifier.Plugin
                                    \o <<"_">> \o nvl.Identifier.Type))
    /\ (/\ nvl.Identifier.Plugin = <<"d","n","s">>
        /\ nvl.Identifier.Type = <<"d","n","s","_","q","t","y","p","e">>
        /\ nvl.DSNames = <<<<"v","a","l","u","e">>>> /\ nvl.Values[1].kind = "Derive")
         => nname = <<"c","o","l","l","e","c","t","d","_","d","n","s","_","d","n","s","_","q","t","y","p","e","_","t","o","t","a","l">>
    /\ (/\ nvl.Identifier.Plugin = <<"c","p","u">>
        /\ nvl.Identifier.Type = <<"p","e","r","c","e","n","t">>
        /\ nvl.DSNames = <<<<"v","a","l","u","e">>>> /\ nvl.Values[1].kind = "Gauge")
         => nname = <<"c","o","l","l","e","c","t","d","_","c","p","u","_","p","e","r","c","e","n","t">>

\* newName has returned collectd_cpu_percent for plugin cpu, type percent
\* and a gauge named value.
C26_Witness ==
  /\ Named
  /\ nvl.Identifier.Plugin = <<"c","p","u">> /\ nvl.Identifier.Type = <<"p","e","r","c","e","n","t">>
  /\ nvl.DSNames = <<<<"v","a","l","u","e">>>> /\ nvl.Values[1].kind = "Gauge"
  /\ nname = <<"c","o","l","l","e","c","t","d","_","c","p","u","_","p","e","r","c","e","n","t">>

\* C27: the name is the sanitized concatenation of a base (with or without
\* the plugin), then "_" and the data source name unless that is "value",
\* then "_total" for a counter or a derive; with the names of the three
\* scenarios it is collectd_cpu_total, collectd_df_used and collectd_df_free,
\* and collectd_interface_if_octets_tx_total.
C27_NameParts ==
  Named =>
    LET id == nvl.Identifier
        D == IF DSName(nvl, nindex) = <<"v","a","l","u","e">> THEN <<>>
             ELSE <<"_">> \o DSName(nvl, nindex)
        T == IF nvl.Values[nindex].kind \in {"Counter", "Derive"} THEN <<"_","t","o","t","a","l">> ELSE <<>>
    IN /\ \E base \in { <<"c","o","l","l","e","c","t","d","_">> \o id.Type,
                        <<"c","o","l","l","e","c","t","d","_">> \o id.Plugin \o <<"_">> \o id.Type } :
            nname = Sanitized(base \o D \o T)
       /\ (/\ id.Plugin = <<"c","p","u">> /\ id.Type = <<"c","p","u">>
           /\ nvl.DSNames = <<<<"v","a","l","u","e">>>> /\ nvl.Values[1].kind = "Derive")
            => nname = <<"c","o","l","l","e","c","t","d","_","c","p","u","_","t","o","t","a","l">>
       /\ (/\ id.Plugin = <<"d","f">> /\ id.Type = <<"d","f">>
           /\ nvl.DSNames = <<<<"u","s","e","d">>, <<"f","r","e","e">>>> /\ nvl.Values[1].kind = "Gauge")
            => nname = (IF nindex = 1 THEN <<"c","o","l","l","e","c","t","d","_","d","f","_","u","s","e","d">> ELSE <<"c","o","l","l","e","c","t","d","_","d","f","_","f","r","e","e">>)
       /\ (/\ id.Plugin = <<"i","n","t","e","r","f","a","c","e">> /\ id.Type = <<"i","f","_","o","c","t","e","t","s">>
           /\ nvl.DSNames = <<<<"r","x">>, <<"t","x">>>> /\ nvl.Values[1].kind = "Counter"
           /\ nindex = 2)
            => nname = <<"c","o","l","l","e","c","t","d","_","i","n","t","e","r","f","a","c","e","_","i","f","_","o","c","t","e","t","s","_","t","x","_","t","o","t","a","l">>

\* newName has returned for the second value, the counter tx, of interface,
\* if_octets.
C27_Witness ==
  /\ Named
  /\ nvl.Identifier.Plugin = <<"i","n","t","e","r","f","a","c","e">> /\ nvl.Identifier.Type = <<"i","f","_","o","c","t","e","t","s">>
  /\ nvl.DSNames = <<<<"r","x">>, <<"t","x">>>> /\ nvl.Values[2].kind = "Counter"
  /\ nindex = 2
  /\ nname = <<"c","o","l","l","e","c","t","d","_","i","n","t","e","r","f","a","c","e","_","i","f","_","o","c","t","e","t","s","_","t","x","_","t","o","t","a","l">>

\* C28 as claimed: the name of a counter or a derive ends in "_total", and
\* the name of a gauge does not.
C28_TotalIffCounterLike ==
  Named =>
    /\ nvl.Values[nindex].kind \in {"Counter", "Derive"} => HasSuffix(nname, <<"_","t","o","t","a","l">>)
    /\ nvl.Values[nindex].kind = "Gauge" => ~ HasSuffix(nname, <<"_","t","o","t","a","l">>)

\* The name as newName builds it before it replaces characters.
RawName(vl, index) == BaseOmitEqual(vl) \o DsPart(vl, index) \o TotalPart(vl, index)

\* C29: the name has the length of the name before sanitization, consists of
\* characters of [A-Za-z0-9_:] only, keeps every such character in its place
\* and has "_" in the place of every other character.
C29_NameSanitized ==
  Named =>
    LET raw == RawName(nvl, nindex) IN
    /\ Len(nname) = Len(raw)
    /\ \A i \in 1..Len(nname) :
         /\ nname[i] \in NameChars
         /\ raw[i] \in NameChars => nname[i] = raw[i]
         /\ raw[i] \notin NameChars => nname[i] = "_"

\* newName has returned for a plugin, a type and a data source name that each
\* have a character outside the set.
C29_Witness ==
  /\ Named
  /\ nvl.Identifier.Plugin = <<"a","-","b">> /\ nvl.Identifier.Type = <<"x",".","y">>
  /\ nvl.DSNames = <<<<"r"," ","x">>>> /\ nvl.Values[1].kind = "Gauge"
  /\ nname = <<"c","o","l","l","e","c","t","d","_","a","_","b","_","x","_","y","_","r","_","x">>

\* newLabels has returned for the value list of the state.
Labelled == npc = "done"

\* The assignments newLabels makes, in order, as pairs of key and value.
LabelAssignments(vl) ==
  LET id == vl.Identifier IN
  (IF id.PluginInstance # <<>> THEN << <<id.Plugin, id.PluginInstance>> >> ELSE <<>>)
    \o (IF id.TypeInstance = <<>> THEN <<>>
        ELSE IF id.PluginInstance = <<>>
          THEN << <<id.Plugin, id.TypeInstance>> >>
          ELSE << <<<<"t","y","p","e">>, id.TypeInstance>> >>)
    \o << <<<<"i","n","s","t","a","n","c","e">>, id.Host>> >>

\* The labels as pairs of key and value.
LabelPairs(labels) == { <<k, labels[k]>> : k \in DOMAIN labels }

C34_ReplacedWithoutComparison ==
  [][ ( /\ ppc = "lock" /\ ppc' = "unlock"
        /\ \/ Expired(pvl, now)
           \/ /\ Key(pvl) \in DOMAIN valueLists
              /\ pvl.Time < valueLists[Key(pvl)].Time )
      => /\ Key(pvl) \in DOMAIN valueLists'
         /\ valueLists'[Key(pvl)] = pvl ]_vars

\* An entry that a Collect at this time would export was replaced by an older
\* sample for the same identity that was expired on arrival; the Collect that
\* copied the map afterwards has finished and emitted nothing for the identity.
C34_Witness ==
  \E c \in Collectors :
    /\ cpc[c] = "range" /\ crest[c] = {}
    /\ Len(log) = 2 /\ log[1].op = "put" /\ log[2].op = "put"
    /\ Key(log[1].vl) = Key(log[2].vl)
    /\ log[2].vl.Time < log[1].vl.Time
    /\ Deadline(log[1].vl) >= cnow[c] /\ Deadline(log[2].vl) < cnow[c]
    /\ csnap[c] = {log[2].vl}
    /\ EmittedFrom(c, log[2].vl) = {}
    /\ valueLists[Key(log[2].vl)] = log[2].vl

\* C32: the value of the last-push gauge never decreases, however the
\* concurrent calls of Write interleave.
C32_LastPushNeverDecreases == [][lastPush' >= lastPush]_vars

\* C35: newLabels loses neither qualifier nor the host: a non-empty plugin
\* instance and a non-empty type instance are each the value of some label,
\* and the label "instance" has the host, whatever the plugin is named.
C35_NoQualifierLost ==
  Labelled =>
    LET id == nvl.Identifier IN
    /\ id.PluginInstance # <<>> =>
         \E k \in DOMAIN nlabels : nlabels[k] = id.PluginInstance
    /\ id.TypeInstance # <<>> =>
         \E k \in DOMAIN nlabels : nlabels[k] = id.TypeInstance
    /\ <<"i","n","s","t","a","n","c","e">> \in DOMAIN nlabels
    /\ nlabels[<<"i","n","s","t","a","n","c","e">>] = id.Host

\* The metrics with a description that a Collect has sent so far.
Described(c) == { i \in DOMAIN csink[c] : "desc" \in DOMAIN csink[c][i] }

\* C33: in one Collect no two emitted metrics have the same name and the
\* same labels, whatever the identities in the copy are and whichever data
\* sources they have.
C33_DistinctDescriptions ==
  \A c \in Collectors :
    \A i, j \in Described(c) :
      i # j => csink[c][i].desc # csink[c][j].desc

\* The tag map the test of the take-over expects for a result of
\* DescribeTags: the five required keys, each with its value in the result,
\* or with the placeholder when the result has no value for it.
Backfilled(res) ==
  [k \in expectedTags |->
     IF \E i \in DOMAIN res : res[i].Key = k /\ res[i].Value # <<>>
       THEN res[CHOOSE i \in DOMAIN res : res[i].Key = k].Value
       ELSE Untagged]

\* The refreshes that have written no tag yet.
BeforeTags(r) == rpc[r] \in {"idle", "instanceId", "privateIp", "describeTags", "failed"}

\* C31: when a refresh has taken over the tags of a DescribeTags result (the
\* first take-over into the collector's metadata), the tag map holds exactly
\* the five required keys: the value of the result, the placeholder Untagged
\* for a required key the result lacks or gives no value, and no other key.
C31_TagsBackfilled ==
  [][ \A r \in Refreshers :
        ( /\ rpc[r] = "range" /\ rpc'[r] = "done"
          /\ \A o \in Refreshers \ {r} : BeforeTags(o) )
        => md'.tags = Backfilled(rtags[r]) ]_vars

\* The steps that read or write c.md: the assignments of refreshMetadata and
\* the label construction of Collect.
MetadataAccess ==
  \/ \E r \in Refreshers :
       \/ rpc[r] = "instanceId" /\ rpc'[r] = "privateIp"
       \/ rpc[r] = "privateIp" /\ rpc'[r] = "describeTags"
       \/ r \in TagWriters /\ ridx'[r] # ridx[r]
  \/ \E c \in TagReaders : crest'[c] # crest[c]

\* C36: the metadata of the EC2 variant is never about to be written by a
\* refresh while a Collect is about to read it or while another refresh is
\* about to write it, and every step that reads or writes it is taken with
\* the collector's mutex held.
C36_MetadataUnderMutex ==
  /\ [](\A r \in TagWriters : TagReaders = {} /\ TagWriters = {r})
  /\ [][MetadataAccess => mu # NoOne]_vars

====
